---- MODULE Spec2Model ----
(***************************************************************************)
(* Schola python bridge: the id flattening core (IdManager), the gRPC      *)
(* protocol adapter, the framework adapters (GymEnv, GymVectorEnv, RayEnv, *)
(* RayVecEnv, sb3 VecEnv, ScholaDataCollector) and the servicers the       *)
(* repository drives them against.                                         *)
(*                                                                         *)
(* Python dicts are functions with a finite domain, python lists are       *)
(* sequences.  Environment ids and flat ids keep their python values       *)
(* (0-based); position p of a list is element p+1 of the sequence.         *)
(***************************************************************************)
EXTENDS Integers, Sequences, FiniteSets, TLC

\* ------------------------------------------------------------------------
\* Bounds of the model
\* ------------------------------------------------------------------------
MaxEnvs == 2
MaxAgentsPerEnv == 2
MaxCount == 5
MaxVecEnvs == 2
MaxLifeEnvs == 2
MaxCalls == 3
MaxRayEnvs == 1
MaxSb3Envs == 1
MaxSb3Count == 5

\* ------------------------------------------------------------------------
\* State.  Each specification below runs one group of variables and leaves
\* the other groups as they start.
\* ------------------------------------------------------------------------
\* IdManager
VARIABLES
    im_pc,        \* last IdManager operation applied
    im_ids,       \* IdManager.ids
    im_x,         \* flat list handed to nest_list_to_dict_of_dicts
    im_nested,    \* its result
    im_flat,      \* result of flatten_list_of_dicts on im_nested
    im_uid,       \* flat id handed to __getitem__(int)
    im_pair,      \* its result
    im_back,      \* result of __getitem__(tuple) on im_pair
    im_some,      \* nested list with items missing handed to flatten_list_of_dicts
    im_default,   \* the default handed in with it
    im_some_flat  \* its result

imVars == <<im_pc, im_ids, im_x, im_nested, im_flat, im_uid, im_pair, im_back,
            im_some, im_default, im_some_flat>>

\* GymVectorEnv over the vector servicer
VARIABLES
    v_ids,           \* GymVectorEnv.id_manager.ids
    srv_mode,        \* servicer.autoreset_mode, set by the startup message
    srv_count,       \* count of each environment of the servicer
    srv_autoreset,   \* servicer._autoreset_envs
    env_max,         \* max_count of each environment
    env_limit,       \* step limit of the wrapper the servicer puts on every environment
    v_call,          \* last call made on the adapter: init, reset, step
    v_err,           \* the exception it raised, or none
    v_act,           \* action batch of the last step call
    v_obs,           \* returned observation batch
    v_rew,           \* returned rewards
    v_term,          \* returned terminations
    v_trunc,         \* returned truncations
    v_final_obs,     \* returned info["final_obs"]
    v_final_mask,    \* returned info["_final_obs"]
    v_initial,       \* initial_obs of the last step response of the transport
    v_options,       \* options argument of the last call, when it was a reset
    v_seed,          \* seed argument of the last call, when it was a reset
    v_seed_sequence, \* GymVectorEnv.seed_sequence
    v_sent,          \* the message the last call handed to the transport
    v_resp,          \* what send_action_msg returned to the last step call
    h_seeded,        \* history: per int seed, resets sent with it and the seeds of the first
    h_prev_done,     \* history: done flags the call before the last returned
    h_step_done,     \* history: done flags the last step that returned gave
    h_prev_count     \* history: environment counts before the last call

vecVars == <<v_ids, srv_mode, srv_count, srv_autoreset, env_max, env_limit, v_call,
             v_err, v_act, v_obs, v_rew, v_term, v_trunc, v_final_obs, v_final_mask,
             v_initial, v_options, v_seed, v_seed_sequence, v_sent, v_resp, h_seeded,
             h_prev_done, h_step_done, h_prev_count>>

\* GymEnv over the single-environment servicer
VARIABLES
    g_count,         \* count of the servicer's environment
    g_max,           \* its max_count
    g_limit,         \* step limit of the wrapper the servicer puts on it
    g_call,          \* last call made on the adapter: init, reset, step
    g_err,           \* the exception it raised, or none
    g_act,           \* action of the last step call
    g_obs,           \* returned observation
    g_rew,           \* returned reward
    g_term,          \* returned terminated
    g_trunc,         \* returned truncated
    h_g_done         \* history: the call before the last returned terminated or truncated

gymVars == <<g_count, g_max, g_limit, g_call, g_err, g_act, g_obs, g_rew, g_term,
             g_trunc, h_g_done>>

\* Construction, use and teardown of an adapter over its transport and simulator
VARIABLES
    l_kind,          \* class of the adapter
    l_sim,           \* class of the simulator
    l_ids,           \* ids of the definition the transport reports
    l_odd,           \* flat position of the one pair whose spaces differ, 0: none
    l_spaces,        \* single_observation_spaces / single_action_spaces of a RayEnv or RayVecEnv
    tcp_socket,      \* SocketProtocolMixin.tcp_socket: None, open, closed
    channel,         \* gRPCProtocol.channel: None, open
    env_process,     \* UnrealExecutable.env_process: None, running, killed
    l_pc,            \* new, ready (constructed), failed (the constructor raised)
    l_closed,        \* the caller has closed the adapter
    l_call,          \* last operation of the caller
    l_err,           \* the exception it raised, or none
    l_err_env,       \* the env_id a NoAgentsException carries, or NoEnvId
    l_log,           \* calls the adapter made on its transport and simulator
    l_ops,           \* number of operations of the caller after construction
    l_sent,          \* messages the last close of the transport put on the wire
    h_open,          \* history: start was called and no close since
    h_was_open       \* history: h_open when the last close was called

lifeVars == <<l_kind, l_sim, l_ids, l_odd, l_spaces, tcp_socket, channel, env_process, l_pc,
              l_closed, l_call, l_err, l_err_env, l_log, l_ops, l_sent, h_open, h_was_open>>

\* RayEnv and RayVecEnv over the PettingZoo servicers
VARIABLES
    r_kind,                \* class of the adapter: RayEnv, RayVecEnv
    r_ids,                 \* id_manager.ids: the agent ids of the definition, per environment
    r_possible,            \* possible_agents of the adapter
    pz_done,               \* per environment: agents the environment reported done this episode
    pz_autoreset,          \* vector servicer._autoreset_envs
    r_current,             \* per environment: _current_agents
    r_terminated,          \* per environment: _terminated_agents
    r_truncated,           \* per environment: _truncated_agents
    r_reset_on_next_step,  \* per environment: _SingleEnvWrapper._reset_on_next_step
    r_agents,              \* per environment: the agents attribute
    r_call,                \* last call made on the adapter: init, reset, step
    r_err,                 \* the exception it raised, or none
    r_obs,                 \* per environment: keys of the returned observations
    r_terminateds,         \* per environment: agents the returned terminateds map to True
    r_truncateds,          \* per environment: agents the returned truncateds map to True
    r_term_all,            \* per environment: returned terminateds["__all__"]
    r_trunc_all,           \* per environment: returned truncateds["__all__"]
    h_seen                 \* history, per environment: agents the adapter returned an
                           \* observation of since it last started the sets afresh

rayVars == <<r_kind, r_ids, r_possible, pz_done, pz_autoreset, r_current, r_terminated, r_truncated,
             r_reset_on_next_step, r_agents, r_call, r_err, r_obs, r_terminateds,
             r_truncateds, r_term_all, r_trunc_all, h_seen>>

\* sb3 VecEnv over the vector PettingZoo servicer
VARIABLES
    sb_ids,          \* VecEnv.id_manager.ids
    sb_count,        \* per environment of the servicer: steps of the running episode
    sb_call,         \* last call made on the adapter: init, reset, step
    sb_err,          \* the exception it raised, or none
    sb_resp,         \* what send_action_msg returned to the last step call
    sb_obs,          \* returned observations, by flat id
    sb_rew,          \* returned rewards, by flat id
    sb_dones,        \* returned dones, by flat id
    sb_infos         \* returned infos, by flat id

sb3Vars == <<sb_ids, sb_count, sb_call, sb_err, sb_resp, sb_obs, sb_rew, sb_dones, sb_infos>>

\* ScholaDataCollector over the imitation servicer
VARIABLES
    dc_episode,      \* servicer: number of the episode its environment runs
    dc_count,        \* servicer: steps its environment made in that episode
    dc_pending,      \* servicer._initial_obs: the initial observation not yet sent
    dc_needs,        \* collector._needs_initial_reset
    dc_initial,      \* _FakeGymEnv.initial_obs
    dc_err,          \* the exception the last step call raised, or none
    dc_log           \* the calls made on the base DataCollector, with what the fake env returned

dcVars == <<dc_episode, dc_count, dc_pending, dc_needs, dc_initial, dc_err, dc_log>>

imRest == <<vecVars, gymVars, lifeVars, rayVars, sb3Vars, dcVars>>
vecRest == <<imVars, gymVars, lifeVars, rayVars, sb3Vars, dcVars>>
gymRest == <<imVars, vecVars, lifeVars, rayVars, sb3Vars, dcVars>>
lifeRest == <<imVars, vecVars, gymVars, rayVars, sb3Vars, dcVars>>
rayRest == <<imVars, vecVars, gymVars, lifeVars, sb3Vars, dcVars>>
sb3Rest == <<imVars, vecVars, gymVars, lifeVars, rayVars, dcVars>>
dcRest == <<imVars, vecVars, gymVars, lifeVars, rayVars, sb3Vars>>

AgentIds == {"a", "b"}
Vals == {"x", "y"}
None == "None"

\* ------------------------------------------------------------------------
\* Generic helpers for python containers
\* ------------------------------------------------------------------------
EmptyDict == << >>

DictPut(d, k, v) == [x \in (DOMAIN d) \cup {k} |-> IF x = k THEN v ELSE d[x]]

SeqRange(s) == {s[i] : i \in DOMAIN s}

\* all duplicate-free sequences over S of length at most n
DistinctSeqs(S, n) ==
    {s \in UNION {[1..k -> S] : k \in 0..n} :
        \A i, j \in DOMAIN s : i # j => s[i] # s[j]}

\* ------------------------------------------------------------------------
\* IdManager (core/utils/id_manager.py)
\* ------------------------------------------------------------------------
\* the (environment, position) pairs of a definition
AgentSlots(ids) ==
    {<<e, i>> \in (DOMAIN ids) \X (1..MaxAgentsPerEnv) : i \in DOMAIN ids[e]}

RECURSIVE SumLens(_, _)
SumLens(ids, e) ==
    IF e > Len(ids) THEN 0 ELSE Len(ids[e]) + SumLens(ids, e + 1)

\* num_ids counting the environments instead of their agents
num_ids_envs(ids) == Len(ids)

num_ids(ids) == SumLens(ids, 1)

num_envs(ids) == Len(ids)

RECURSIVE IdListFrom(_, _)
IdListFrom(ids, e) ==
    IF e > Len(ids) THEN << >>
    ELSE [k \in 1..Len(ids[e]) |-> <<e - 1, ids[e][k]>>] \o IdListFrom(ids, e + 1)

id_list(ids) == IdListFrom(ids, 1)

\* id_map with the uid advanced once per environment instead of once per agent
RECURSIVE IdMapInnerStuck(_, _, _, _)
IdMapInnerStuck(nested_ids, k, uid, acc) ==
    IF k > Len(nested_ids) THEN acc
    ELSE IdMapInnerStuck(nested_ids, k + 1, uid, DictPut(acc, nested_ids[k], uid))

RECURSIVE IdMapInner(_, _, _, _)
IdMapInner(nested_ids, k, uid, acc) ==
    IF k > Len(nested_ids) THEN acc
    ELSE IdMapInner(nested_ids, k + 1, uid + 1, DictPut(acc, nested_ids[k], uid))

RECURSIVE IdMapOuter(_, _, _)
IdMapOuter(ids, e, uid) ==
    IF e > Len(ids) THEN << >>
    ELSE <<IdMapInner(ids[e], 1, uid, EmptyDict)>>
            \o IdMapOuter(ids, e + 1, uid + Len(ids[e]))

\* id_map with the uid counter restarted for every environment
id_map_restart(ids) == [e \in 1..Len(ids) |-> IdMapInner(ids[e], 1, 0, EmptyDict)]

\* id_map with the uid counter started at one
id_map_from_one(ids) == IdMapOuter(ids, 1, 1)

id_map(ids) == IdMapOuter(ids, 1, 0)

\* __getitem__(int): flat id -> (env id, agent id)
get_nested_id(ids, flat_id) == id_list(ids)[flat_id + 1]

\* __getitem__(tuple): (env id, agent id) -> flat id
get_flattened_id(ids, first_id, second_id) == id_map(ids)[first_id + 1][second_id]

partial_get(ids, first_id) == ids[first_id + 1]

\* the items of one dict of a nested list, written into the output list in
\* the order of the definition
RECURSIVE FlattenInner(_, _, _, _, _, _)
FlattenInner(ids, uids, first_id, nested_ids, k, out) ==
    IF k > Len(ids[first_id + 1]) THEN out
    ELSE LET second_id == ids[first_id + 1][k] IN
         IF second_id \in DOMAIN nested_ids
         THEN FlattenInner(ids, uids, first_id, nested_ids, k + 1,
                 [out EXCEPT ![uids[first_id + 1][second_id] + 1]
                                 = nested_ids[second_id]])
         ELSE FlattenInner(ids, uids, first_id, nested_ids, k + 1, out)

RECURSIVE FlattenOuter(_, _, _, _, _)
FlattenOuter(ids, uids, nested_id_list, e, out) ==
    IF e > Len(nested_id_list) THEN out
    ELSE FlattenOuter(ids, uids, nested_id_list, e + 1,
            FlattenInner(ids, uids, e - 1, nested_id_list[e], 1, out))

\* an item of the nested structure that id_map does not know
FlattenKeyError(ids, nested_id_list) ==
    \E e \in DOMAIN nested_id_list :
        IF e > Len(ids) THEN DOMAIN nested_id_list[e] # {}
        ELSE ~((DOMAIN nested_id_list[e]) \subseteq SeqRange(ids[e]))

\* the result slots filled with None, whatever default is passed
flatten_list_of_dicts_none(ids, nested_id_list, default) ==
    IF FlattenKeyError(ids, nested_id_list) THEN "KeyError"
    ELSE FlattenOuter(ids, id_map(ids), nested_id_list, 1,
                      [i \in 1..num_ids(ids) |-> None])

flatten_list_of_dicts(ids, nested_id_list, default) ==
    IF FlattenKeyError(ids, nested_id_list) THEN "KeyError"
    ELSE FlattenOuter(ids, id_map(ids), nested_id_list, 1,
                      [i \in 1..num_ids(ids) |-> default])

\* the same over a dict keyed by env id: env id e is entry e+1 of the model
flatten_dict_of_dicts(ids, nested_id_dict, default) ==
    flatten_list_of_dicts(ids, nested_id_dict, default)

RECURSIVE NestFrom(_, _, _, _)
NestFrom(ids, flat, k, out) ==
    IF k > Len(flat) THEN out
    ELSE LET pair == get_nested_id(ids, k - 1) IN
         NestFrom(ids, flat, k + 1,
             [out EXCEPT ![pair[1] + 1] = DictPut(@, pair[2], flat[k])])

nest_list_to_dict_of_dicts(ids, flat, default) ==
    IF Len(flat) > num_ids(ids) THEN "IndexError"
    ELSE NestFrom(ids, flat, 1,
            [e \in 1..Len(ids) |-> [a \in SeqRange(ids[e]) |-> default]])

\* the populations a definition can carry: agent ids are the keys of a map,
\* hence unique within an environment
Populations == UNION {[1..n -> DistinctSeqs(AgentIds, MaxAgentsPerEnv)] : n \in 0..MaxEnvs}

ImInit ==
    /\ im_pc = "constructed"
    /\ im_ids \in Populations
    /\ im_x = << >>
    /\ im_nested = << >>
    /\ im_flat = << >>
    /\ im_uid = 0
    /\ im_pair = <<0, None>>
    /\ im_back = 0
    /\ im_some = << >>
    /\ im_default = None
    /\ im_some_flat = << >>

ImNest ==
    /\ im_pc = "constructed"
    /\ \E x \in [1..num_ids(im_ids) -> Vals] :
        /\ im_x' = x
        /\ im_nested' = nest_list_to_dict_of_dicts(im_ids, x, None)
    /\ im_pc' = "nested"
    /\ UNCHANGED <<im_ids, im_flat, im_uid, im_pair, im_back,
                   im_some, im_default, im_some_flat>>
    /\ UNCHANGED imRest

ImFlatten ==
    /\ im_pc = "nested"
    /\ im_flat' = flatten_list_of_dicts(im_ids, im_nested, None)
    /\ im_pc' = "flattened"
    /\ UNCHANGED <<im_ids, im_x, im_nested, im_uid, im_pair, im_back,
                   im_some, im_default, im_some_flat>>
    /\ UNCHANGED imRest

ImToNested ==
    /\ im_pc \in {"constructed", "flattened"}
    /\ \E uid \in 0..(num_ids(im_ids) - 1) :
        /\ im_uid' = uid
        /\ im_pair' = get_nested_id(im_ids, uid)
    /\ im_pc' = "tonested"
    /\ UNCHANGED <<im_ids, im_x, im_nested, im_flat, im_back,
                   im_some, im_default, im_some_flat>>
    /\ UNCHANGED imRest

ImToFlat ==
    /\ im_pc = "tonested"
    /\ im_back' = get_flattened_id(im_ids, im_pair[1], im_pair[2])
    /\ im_pc' = "toflat"
    /\ UNCHANGED <<im_ids, im_x, im_nested, im_flat, im_uid, im_pair,
                   im_some, im_default, im_some_flat>>
    /\ UNCHANGED imRest

\* the defaults a caller passes
Defaults == {None, "d"}

\* flatten_list_of_dicts(nested_id_list, default) on a list that stops after
\* the first k environments and holds no item for the agents of drop
ImFlattenSome ==
    /\ im_pc = "nested"
    /\ \E drop \in SUBSET AgentIds, k \in 0..Len(im_ids), default \in Defaults :
        \E some \in {[e \in 1..k |->
                        [a \in (DOMAIN im_nested[e]) \ drop |-> im_nested[e][a]]]} :
        /\ im_some' = some
        /\ im_default' = default
        /\ im_some_flat' = flatten_list_of_dicts(im_ids, some, default)
    /\ im_pc' = "flattened_some"
    /\ UNCHANGED <<im_ids, im_x, im_nested, im_flat, im_uid, im_pair, im_back>>
    /\ UNCHANGED imRest

ImNext == ImNest \/ ImFlatten \/ ImFlattenSome \/ ImToNested \/ ImToFlat

\* ------------------------------------------------------------------------
\* The environments under the gym servicers (Test/envs/gym_server.py takes
\* any gym.Env factory): the counting env of the auto-reset tests, which
\* terminates when its count reaches max_count, under a wrapper of the
\* servicer's wrappers list that truncates when the count reaches its step
\* limit (0: no such wrapper).
\* ------------------------------------------------------------------------
SingleAgent == "single_agent"
MaxCounts == {2, 4}
StepLimits == {0, 3}
ActionVals == {1, 2}
SeedVals == {1}
IntSeeds == {1}
NoCount == -1
NoSeed == << >>

\* count_reset: the count restarts at the seed, or at 0 without a seed
env_reset(seed) ==
    LET c == IF seed = NoSeed THEN 0 ELSE seed[1] IN [count |-> c, obs |-> c]

\* count_step: reward is the action, terminated at max_count
env_step(count, max_count, step_limit, action) ==
    [count |-> count + 1,
     obs |-> count + 1,
     rew |-> action,
     term |-> (count + 1 = max_count),
     trunc |-> (count + 1 = step_limit)]

\* ------------------------------------------------------------------------
\* VecGymToGymServiceServicer.UpdateState (Test/envs/gym_server.py)
\* ------------------------------------------------------------------------
\* the loop body with the initial observation also filled in by the deferred
\* reset of the NextStep branch
VecServicerStepEnvEager(mode, count, autoreset, max_count, step_limit, action) ==
    LET st == env_step(count, max_count, step_limit, action)
        rs == env_reset(NoSeed)
    IN  IF mode = "NextStep" /\ autoreset
        THEN [count |-> rs.count, obs |-> rs.obs, rew |-> 0, term |-> FALSE,
              trunc |-> FALSE, has_initial |-> TRUE, initial_obs |-> rs.obs]
        ELSE IF mode = "SameStep" /\ (st.term \/ st.trunc)
        THEN [count |-> rs.count, obs |-> st.obs, rew |-> st.rew, term |-> st.term,
              trunc |-> st.trunc, has_initial |-> TRUE, initial_obs |-> rs.obs]
        ELSE [count |-> st.count, obs |-> st.obs, rew |-> st.rew, term |-> st.term,
              trunc |-> st.trunc, has_initial |-> FALSE, initial_obs |-> None]

\* one pass of the loop over the environments of a step request
VecServicerStepEnv(mode, count, autoreset, max_count, step_limit, action) ==
    LET st == env_step(count, max_count, step_limit, action)
        rs == env_reset(NoSeed)
    IN  IF mode = "NextStep" /\ autoreset
        THEN [count |-> rs.count, obs |-> rs.obs, rew |-> 0, term |-> FALSE,
              trunc |-> FALSE, has_initial |-> FALSE, initial_obs |-> None]
        ELSE IF mode = "SameStep" /\ (st.term \/ st.trunc)
        THEN [count |-> rs.count, obs |-> st.obs, rew |-> st.rew, term |-> st.term,
              trunc |-> st.trunc, has_initial |-> TRUE, initial_obs |-> rs.obs]
        ELSE [count |-> st.count, obs |-> st.obs, rew |-> st.rew, term |-> st.term,
              trunc |-> st.trunc, has_initial |-> FALSE, initial_obs |-> None]

\* the first environment at which the loop raises, 0 when it completes:
\* the Disabled branch asserts that the environment is not flagged, and an
\* environment that was never reset has no count to step
VecServicerFirstError(mode, counts, autoresets) ==
    LET bad == {i \in DOMAIN counts :
                    \/ mode = "Disabled" /\ autoresets[i]
                    \/ counts[i] = NoCount /\ ~(mode = "NextStep" /\ autoresets[i])}
    IN  IF bad = {} THEN 0 ELSE CHOOSE i \in bad : \A j \in bad : i <= j

\* the step branch with _autoreset_envs taken from the terminations alone
VecServicerStepTermOnly(mode, counts, autoresets, max_counts, step_limit, actions) ==
    LET n == Len(counts)
        first == VecServicerFirstError(mode, counts, autoresets)
        r == [i \in 1..n |->
                VecServicerStepEnv(mode, counts[i], autoresets[i], max_counts[i],
                                   step_limit, actions[i][SingleAgent])]
    IN  IF first # 0
        THEN [error |-> IF counts[first] = NoCount THEN "AttributeError"
                        ELSE "AssertionError",
              counts |-> [i \in 1..n |-> IF i < first THEN r[i].count ELSE counts[i]],
              autoresets |-> autoresets]
        ELSE [error |-> "none",
              counts |-> [i \in 1..n |-> r[i].count],
              autoresets |-> [i \in 1..n |-> r[i].term],
              observations |-> [i \in 1..n |-> [a \in {SingleAgent} |-> r[i].obs]],
              rewards |-> [i \in 1..n |-> [a \in {SingleAgent} |-> r[i].rew]],
              terminateds |-> [i \in 1..n |-> [a \in {SingleAgent} |-> r[i].term]],
              truncateds |-> [i \in 1..n |-> [a \in {SingleAgent} |-> r[i].trunc]],
              initial_obs |-> [i \in {j \in 1..n : r[j].has_initial} |->
                                 [a \in {SingleAgent} |-> r[i].initial_obs]]]

\* the step branch: actions is the list (by env id) of dicts agent id -> action
VecServicerStep(mode, counts, autoresets, max_counts, step_limit, actions) ==
    LET n == Len(counts)
        first == VecServicerFirstError(mode, counts, autoresets)
        r == [i \in 1..n |->
                VecServicerStepEnv(mode, counts[i], autoresets[i], max_counts[i],
                                   step_limit, actions[i][SingleAgent])]
    IN  IF first # 0
        THEN [error |-> IF counts[first] = NoCount THEN "AttributeError"
                        ELSE "AssertionError",
              counts |-> [i \in 1..n |-> IF i < first THEN r[i].count ELSE counts[i]],
              autoresets |-> autoresets]
        ELSE [error |-> "none",
              counts |-> [i \in 1..n |-> r[i].count],
              autoresets |-> [i \in 1..n |-> r[i].term \/ r[i].trunc],
              observations |-> [i \in 1..n |-> [a \in {SingleAgent} |-> r[i].obs]],
              rewards |-> [i \in 1..n |-> [a \in {SingleAgent} |-> r[i].rew]],
              terminateds |-> [i \in 1..n |-> [a \in {SingleAgent} |-> r[i].term]],
              truncateds |-> [i \in 1..n |-> [a \in {SingleAgent} |-> r[i].trunc]],
              initial_obs |-> [i \in {j \in 1..n : r[j].has_initial} |->
                                 [a \in {SingleAgent} |-> r[i].initial_obs]]]

\* the reset branch marking every environment it resets in _autoreset_envs
VecServicerResetMarking(counts, autoresets, seeds) ==
    [counts |-> [i \in DOMAIN counts |-> env_reset(<<seeds[i]>>).count],
     autoresets |-> [i \in DOMAIN counts |-> TRUE],
     observations |-> [i \in DOMAIN counts |->
                          [a \in {SingleAgent} |-> env_reset(<<seeds[i]>>).obs]]]

\* the reset branch: every environment is reset with the seed field of its
\* entry of the request; _autoreset_envs is left as it is
VecServicerReset(counts, autoresets, seeds) ==
    LET n == Len(counts)
        r == [i \in 1..n |-> env_reset(<<seeds[i]>>)]
    IN  [counts |-> [i \in 1..n |-> r[i].count],
         autoresets |-> autoresets,
         observations |-> [i \in 1..n |-> [a \in {SingleAgent} |-> r[i].obs]]]

\* ------------------------------------------------------------------------
\* GymVectorEnv (gym/env.py) over gRPCProtocol and the vector servicer
\* ------------------------------------------------------------------------
AutoresetModes == {"Disabled", "SameStep", "NextStep"}

\* send_reset_msg: the seed field of an environment is set only when a seed is
\* given for it; an unset field reads as 0 on the other side
WireSeeds(n, seeds) == [i \in 1..n |-> IF seeds = NoSeed THEN 0 ELSE seeds[i]]

\* the batch nested from its last element to its first
unbatch_actions_reversed(ids, actions) ==
    nest_list_to_dict_of_dicts(ids, [i \in DOMAIN actions |-> actions[Len(actions) + 1 - i]],
                               None)

\* unbatch_actions: the batch becomes env id -> agent id -> action
unbatch_actions(ids, actions) == nest_list_to_dict_of_dicts(ids, actions, None)

\* an environment in which some agents are done and others are not
MixedCompletion(ids, terminateds, truncateds) ==
    \E e \in DOMAIN ids :
        /\ \E a \in SeqRange(ids[e]) : terminateds[e][a] \/ truncateds[e][a]
        /\ \E a \in SeqRange(ids[e]) : ~(terminateds[e][a] \/ truncateds[e][a])

\* the second loop of step without the replacement of the observation
FoldedObservationsKept(observations, initial_obs) == observations

\* the second loop of step: a same-step reset moves the terminal observation
\* into info["final_obs"] and puts the initial observation in its place
FoldedObservations(observations, initial_obs) ==
    [e \in DOMAIN observations |->
        IF e \in DOMAIN initial_obs THEN initial_obs[e] ELSE observations[e]]

FinalObservations(ids, observations, initial_obs) ==
    flatten_list_of_dicts(ids,
        [e \in DOMAIN observations |->
            IF e \in DOMAIN initial_obs THEN observations[e] ELSE EmptyDict], None)

FinalMask(ids, observations, initial_obs) ==
    flatten_list_of_dicts(ids,
        [e \in DOMAIN observations |->
            IF e \in DOMAIN initial_obs
            THEN [a \in DOMAIN observations[e] |-> TRUE] ELSE EmptyDict], FALSE)

\* what a call that raised, or a reset, leaves of the step results
NoResult == << >>

\* reset called without a seed
SeedNone == [kind |-> "none", vals |-> NoSeed]

\* seed_sequence before the first reset with an int seed
NoSeedSequence == [entropy |-> NoCount, n_children_spawned |-> 0]

\* no message went to the transport
NoMessage == [msg |-> "none", seeds |-> NoSeed, options |-> None, actions |-> NoResult]

\* no step response came from the transport
NoResponse == [rewards |-> NoResult, terminateds |-> NoResult, truncateds |-> NoResult]

VecInit ==
    /\ \E n \in 1..MaxVecEnvs :
        /\ v_ids = [e \in 1..n |-> <<SingleAgent>>]
        /\ env_max \in [1..n -> MaxCounts]
        /\ srv_count = [e \in 1..n |-> NoCount]
        /\ srv_autoreset = [e \in 1..n |-> FALSE]
        /\ h_prev_done = [e \in 1..n |-> FALSE]
        /\ h_step_done = [e \in 1..n |-> FALSE]
        /\ h_prev_count = [e \in 1..n |-> NoCount]
    /\ srv_mode \in AutoresetModes
    /\ env_limit \in StepLimits
    /\ v_call = "init"
    /\ v_err = "none"
    /\ v_act = NoResult
    /\ v_obs = NoResult
    /\ v_rew = NoResult
    /\ v_term = NoResult
    /\ v_trunc = NoResult
    /\ v_final_obs = NoResult
    /\ v_final_mask = NoResult
    /\ v_initial = EmptyDict
    /\ v_options = "None"
    /\ v_seed = SeedNone
    /\ v_seed_sequence = NoSeedSequence
    /\ v_sent = NoMessage
    /\ v_resp = NoResponse
    /\ h_seeded = [s \in IntSeeds |-> [n |-> 0, first |-> NoSeed]]

\* the done flags the last call returned (none when it was not a step that
\* returned)
LastDone ==
    [e \in DOMAIN v_ids |->
        IF v_call = "step" /\ v_err = "none" THEN v_term[e] \/ v_trunc[e] ELSE FALSE]

\* the options handed to send_reset_msg: None when the caller passed none,
\* else one dict per environment
processed_options(options, n) ==
    IF options = "None" THEN None ELSE [e \in 1..n |-> EmptyDict]

\* the reset options a caller can pass: none, a dict holding reset_mask, a
\* dict holding some other key
ResetOptions == {"None", "reset_mask", "other"}

\* the seed arguments a caller can pass: None, an int, a list of one seed per
\* environment
ResetSeeds(n) ==
    {SeedNone} \cup {[kind |-> "int", vals |-> <<s>>] : s \in IntSeeds}
        \cup {[kind |-> "list", vals |-> l] : l \in [1..n -> SeedVals]}

\* the sequence held from an earlier reset kept, with its count of children
SeedSequenceKept(held, seed) ==
    IF held = NoSeedSequence THEN [entropy |-> seed, n_children_spawned |-> 0]
    ELSE [held EXCEPT !.entropy = seed]

\* np.random.SeedSequence(entropy=seed), whatever sequence the adapter held
SeedSequence(held, seed) == [entropy |-> seed, n_children_spawned |-> 0]

\* np.int32(x.generate_state(1)).item() of the child x with the given spawn
\* key: numpy hashes the entropy and the key into one word; any function of
\* the two that tells the keys of one entropy apart stands for the hash
generate_state(entropy, key) == (entropy * 3 + key) % 5

\* seed_sequence.spawn(1), then the seeds of seed_sequence.spawn(num_envs):
\* the children take the spawn keys after those already handed out
SpawnedSeeds(seq, n) ==
    [i \in 1..n |-> generate_state(seq.entropy, seq.n_children_spawned + i)]

\* the options loop with reset_mask let through
OptionsErrorUnmasked(options) == IF options = "other" THEN "NameError" ELSE "none"

\* what the processing of the options raises: NotImplementedError for a dict
\* holding reset_mask, NameError in the loop over the keys of any other dict
\* that is not empty (env_id and agent_id are not defined there)
OptionsError(options) ==
    IF options = "reset_mask" THEN "NotImplementedError"
    ELSE IF options = "other" THEN "NameError"
    ELSE "none"

\* GymVectorEnv.reset(seed, options)
VecReset ==
    /\ \E options \in ResetOptions, seed \in ResetSeeds(Len(v_ids)) :
        \E seq \in {IF seed.kind = "int" THEN SeedSequence(v_seed_sequence, seed.vals[1])
                                         ELSE v_seed_sequence} :
        \E seeds \in {IF seed.kind = "int" THEN SpawnedSeeds(seq, Len(v_ids))
                                           ELSE seed.vals} :
        /\ v_options' = options
        /\ v_seed' = seed
        /\ v_seed_sequence' =
                IF seed.kind = "int"
                THEN [seq EXCEPT !.n_children_spawned = @ + 1 + Len(v_ids)]
                ELSE seq
        /\ IF OptionsError(options) # "none"
           THEN /\ v_err' = OptionsError(options)
                /\ v_obs' = NoResult
                /\ v_sent' = NoMessage
                /\ UNCHANGED <<srv_count, srv_autoreset, h_seeded>>
           ELSE \E res \in {VecServicerReset(srv_count, srv_autoreset,
                                             WireSeeds(Len(v_ids), seeds))} :
                /\ v_err' = "none"
                /\ v_sent' = [msg |-> "reset", seeds |-> seeds,
                              options |-> processed_options(options, Len(v_ids)),
                              actions |-> NoResult]
                /\ h_seeded' =
                        IF seed.kind = "int"
                        THEN [h_seeded EXCEPT ![seed.vals[1]] =
                                IF @.n = 0 THEN [n |-> 1, first |-> seeds]
                                ELSE [@ EXCEPT !.n = 2]]
                        ELSE h_seeded
                /\ srv_count' = res.counts
                /\ srv_autoreset' = res.autoresets
                /\ v_obs' = flatten_list_of_dicts(v_ids, res.observations, None)
    /\ v_call' = "reset"
    /\ h_prev_count' = srv_count
    /\ h_prev_done' = LastDone
    /\ v_act' = NoResult
    /\ v_rew' = NoResult
    /\ v_term' = NoResult
    /\ v_trunc' = NoResult
    /\ v_final_obs' = NoResult
    /\ v_final_mask' = NoResult
    /\ v_initial' = EmptyDict
    /\ v_resp' = NoResponse
    /\ UNCHANGED <<v_ids, srv_mode, env_max, env_limit, h_step_done>>
    /\ UNCHANGED vecRest

\* GymVectorEnv.step(actions)
VecStep ==
    /\ \A e \in DOMAIN srv_count : srv_count[e] < MaxCount
    /\ \E actions \in [1..num_ids(v_ids) -> ActionVals] :
        \E res \in {VecServicerStep(srv_mode, srv_count, srv_autoreset, env_max,
                                    env_limit, unbatch_actions(v_ids, actions))} :
            /\ v_act' = actions
            /\ srv_count' = res.counts
            /\ srv_autoreset' = res.autoresets
            /\ v_resp' = IF res.error # "none" THEN NoResponse
                          ELSE [rewards |-> res.rewards,
                                terminateds |-> res.terminateds,
                                truncateds |-> res.truncateds]
            /\ IF res.error # "none"
               THEN /\ v_err' = "RpcError"
                    /\ v_initial' = EmptyDict
                    /\ v_obs' = NoResult
                    /\ v_rew' = NoResult
                    /\ v_term' = NoResult
                    /\ v_trunc' = NoResult
                    /\ v_final_obs' = NoResult
                    /\ v_final_mask' = NoResult
               ELSE IF MixedCompletion(v_ids, res.terminateds, res.truncateds)
               THEN /\ v_err' = "EnvironmentException"
                    /\ v_initial' = res.initial_obs
                    /\ v_obs' = NoResult
                    /\ v_rew' = NoResult
                    /\ v_term' = NoResult
                    /\ v_trunc' = NoResult
                    /\ v_final_obs' = NoResult
                    /\ v_final_mask' = NoResult
               ELSE /\ v_err' = "none"
                    /\ v_initial' = res.initial_obs
                    /\ v_rew' = flatten_list_of_dicts(v_ids, res.rewards, None)
                    /\ v_term' = flatten_list_of_dicts(v_ids, res.terminateds, None)
                    /\ v_trunc' = flatten_list_of_dicts(v_ids, res.truncateds, None)
                    /\ v_final_obs' = FinalObservations(v_ids, res.observations,
                                                        res.initial_obs)
                    /\ v_final_mask' = FinalMask(v_ids, res.observations, res.initial_obs)
                    /\ v_obs' = flatten_list_of_dicts(v_ids,
                                    FoldedObservations(res.observations, res.initial_obs),
                                    None)
    /\ v_call' = "step"
    /\ h_step_done' = IF v_err' = "none"
                      THEN [e \in DOMAIN v_ids |-> v_term'[e] \/ v_trunc'[e]]
                      ELSE h_step_done
    /\ v_sent' = [msg |-> "step", seeds |-> NoSeed, options |-> None,
                  actions |-> unbatch_actions(v_ids, v_act')]
    /\ h_prev_count' = srv_count
    /\ h_prev_done' = LastDone
    /\ UNCHANGED <<v_ids, srv_mode, env_max, env_limit>>
    /\ v_options' = "None"
    /\ v_seed' = SeedNone
    /\ UNCHANGED <<v_seed_sequence, h_seeded>>
    /\ UNCHANGED vecRest

VecNext == VecReset \/ VecStep

\* ------------------------------------------------------------------------
\* GymEnv (gym/env.py) over gRPCProtocol and GymToGymServiceServicer
\* ------------------------------------------------------------------------
\* GymToGymServiceServicer.UpdateState, reset branch
ServicerReset(seed) == env_reset(<<seed>>)

\* GymToGymServiceServicer.UpdateState, step branch: the environment is
\* stepped whatever it returned before
ServicerStep(count, max_count, step_limit, action) ==
    IF count = NoCount THEN [error |-> "AttributeError"]
    ELSE [error |-> "none", result |-> env_step(count, max_count, step_limit, action)]

\* the actions and seeds the caller of a GymEnv draws from
GymActionVals == {1, 2, 3}
GymSeedVals == {1, 2}

GymInit ==
    /\ g_count = NoCount
    /\ g_max \in MaxCounts
    /\ g_limit \in StepLimits
    /\ g_call = "init"
    /\ g_err = "none"
    /\ g_act = NoResult
    /\ g_obs = NoResult
    /\ g_rew = NoResult
    /\ g_term = FALSE
    /\ g_trunc = FALSE
    /\ h_g_done = FALSE

\* GymEnv.reset(seed): seeds = [seed] when a seed is given
GymReset ==
    /\ \E seed \in {NoSeed} \cup {<<sd>> : sd \in GymSeedVals} :
        \E res \in {ServicerReset(WireSeeds(1, seed)[1])} :
            /\ g_count' = res.count
            /\ g_obs' = res.obs
    /\ g_call' = "reset"
    /\ g_err' = "none"
    /\ g_act' = NoResult
    /\ g_rew' = NoResult
    /\ g_term' = FALSE
    /\ g_trunc' = FALSE
    /\ h_g_done' = (g_call = "step" /\ g_err = "none" /\ (g_term \/ g_trunc))
    /\ UNCHANGED <<g_max, g_limit>>
    /\ UNCHANGED gymRest

\* GymEnv.step(action)
GymStep ==
    /\ g_count < MaxCount
    /\ \E action \in GymActionVals :
        \E res \in {ServicerStep(g_count, g_max, g_limit, action)} :
            /\ g_act' = action
            /\ IF res.error # "none"
               THEN /\ g_err' = "RpcError"
                    /\ g_obs' = NoResult
                    /\ g_rew' = NoResult
                    /\ g_term' = FALSE
                    /\ g_trunc' = FALSE
                    /\ UNCHANGED g_count
               ELSE /\ g_err' = "none"
                    /\ g_count' = res.result.count
                    /\ g_obs' = res.result.obs
                    /\ g_rew' = res.result.rew
                    /\ g_term' = res.result.term
                    /\ g_trunc' = res.result.trunc
    /\ g_call' = "step"
    /\ h_g_done' = (g_call = "step" /\ g_err = "none" /\ (g_term \/ g_trunc))
    /\ UNCHANGED <<g_max, g_limit>>
    /\ UNCHANGED gymRest

GymNext == GymReset \/ GymStep

\* ------------------------------------------------------------------------
\* The transport (gRPCProtocol over SocketProtocolMixin) and the simulators
\* ------------------------------------------------------------------------
\* SocketProtocolMixin.has_socket
has_socket(sock) == sock = "open"

\* SocketProtocolMixin.on_start: the socket is made unless there is one
on_start(sock) == IF ~has_socket(sock) THEN "open" ELSE sock

\* SocketProtocolMixin.on_close
on_close(sock) == IF has_socket(sock) THEN "closed" ELSE sock

\* gRPCProtocol.channel_connected
channel_connected(chan) == chan # "None"

\* gRPCProtocol.__bool__
protocol_bool(sock, chan) == has_socket(sock) /\ channel_connected(chan)

\* gRPCProtocol.start
protocol_start(sock, chan) == [tcp_socket |-> on_start(sock), channel |-> "open"]

\* gRPCProtocol.close that leaves the channel attribute set
protocol_close_kept(sock, chan) ==
    IF channel_connected(chan)
    THEN [tcp_socket |-> on_close(sock), channel |-> chan, sent |-> 1]
    ELSE [tcp_socket |-> on_close(sock), channel |-> chan, sent |-> 0]

\* gRPCProtocol.close: the CLOSED status is sent on a connected channel, which
\* is then closed and forgotten; an RpcError of the send is swallowed
protocol_close(sock, chan) ==
    IF channel_connected(chan)
    THEN [tcp_socket |-> on_close(sock), channel |-> "None", sent |-> 1]
    ELSE [tcp_socket |-> on_close(sock), channel |-> chan, sent |-> 0]

\* UnrealEditor.start does nothing; UnrealExecutable.start launches the
\* process unless it has one
simulator_start(sim, proc) ==
    IF sim = "UnrealEditor" THEN [error |-> "none", env_process |-> proc]
    ELSE IF proc # "None" THEN [error |-> "Exception", env_process |-> proc]
    ELSE [error |-> "none", env_process |-> "running"]

\* UnrealEditor.stop does nothing; UnrealExecutable.stop kills its process
simulator_stop(sim, proc) ==
    IF sim = "UnrealEditor" THEN proc
    ELSE IF proc # "None" THEN "killed" ELSE proc

\* ------------------------------------------------------------------------
\* The constructors of the adapters
\* ------------------------------------------------------------------------
RayKinds == {"RayEnv", "RayVecEnv"}
TrainingKinds == {"GymEnv", "GymVectorEnv", "VecEnv"} \cup RayKinds
Kinds == TrainingKinds \cup {"ScholaDataCollector"}
Simulators == {"UnrealEditor", "UnrealExecutable"}

\* the space of the pair at a flat position (from 1) of the definition
SpaceAt(odd, k) == IF k = odd THEN "Discrete" ELSE "Box"

\* BaseRayEnv._build_spaces(obs_defns, action_defns, first_env_id) with the
\* first_env_id of id_manager[0]: an entry for every agent of that environment
build_spaces(ids, odd) ==
    LET first_env_id == get_nested_id(ids, 0)[1]
    IN  [agent_id \in SeqRange(ids[first_env_id + 1]) |->
            SpaceAt(odd, get_flattened_id(ids, first_env_id, agent_id) + 1)]

\* the environments without agents
EmptyEnvs(ids) == {e \in DOMAIN ids : Len(ids[e]) = 0}

\* no env_id: the exception raised is not a NoAgentsException
NoEnvId == -1

\* NoAgentsException(env_id) of the loop over enumerate(ids): the first
\* environment without agents, counted from 0
NoAgentsEnvId(ids) ==
    (CHOOSE e \in EmptyEnvs(ids) : \A d \in EmptyEnvs(ids) : e <= d) - 1

\* the validation block without its comparison of the spaces
ValidationErrorUncompared(ids, odd, compare_spaces) ==
    IF Len(ids) = 0 THEN "NoEnvironmentsException"
    ELSE IF EmptyEnvs(ids) # {} THEN "NoAgentsException"
    ELSE "none"

\* the validation block shared by GymVectorEnv, the sb3 VecEnv (inside their
\* try) and BaseRayEnv._validate_environments (spaces not compared there)
ValidationError(ids, odd, compare_spaces) ==
    IF Len(ids) = 0 THEN "NoEnvironmentsException"
    ELSE IF EmptyEnvs(ids) # {} THEN "NoAgentsException"
    ELSE IF compare_spaces /\ \E k \in 1..num_ids(ids) : SpaceAt(odd, k) # SpaceAt(odd, 1)
    THEN "AssertionError"
    ELSE "none"

\* _define_environment after get_definition (for the data collector the lines
\* of __init__ between get_definition and send_startup_msg): the exception it
\* raises, the env_id it carries and whether its handler tore the transport
\* and simulator down.  id_manager[0] is evaluated before the validation
\* block and outside its try: on a definition without any agent it raises
\* IndexError (in GymVectorEnv the batching of an empty list of spaces comes
\* earlier still, also outside the try)
define_environment(kind, ids, odd) ==
    IF num_ids(ids) = 0
    THEN [error |-> "IndexError", env_id |-> NoEnvId, teardown |-> FALSE]
    ELSE IF kind = "GymEnv"
    THEN IF num_ids(ids) # 1
         THEN [error |-> "AssertionError", env_id |-> NoEnvId, teardown |-> TRUE]
         ELSE [error |-> "none", env_id |-> NoEnvId, teardown |-> FALSE]
    ELSE IF kind = "ScholaDataCollector"
    THEN IF num_ids(ids) # 1
         THEN [error |-> "AssertionError", env_id |-> NoEnvId, teardown |-> FALSE]
         ELSE [error |-> "none", env_id |-> NoEnvId, teardown |-> FALSE]
    ELSE IF kind = "RayEnv" /\ num_envs(ids) # 1
    THEN [error |-> "AssertionError", env_id |-> NoEnvId, teardown |-> FALSE]
    ELSE LET err == ValidationError(ids, odd, kind \notin RayKinds)
         IN  [error |-> err,
              env_id |-> IF err = "NoAgentsException" THEN NoAgentsEnvId(ids) ELSE NoEnvId,
              teardown |-> err # "none"]

\* the calls a constructor makes on its transport between simulator.start
\* and the checks of the definition, with send_startup_msg after the
\* definition
TransportCallsBeforeSwapped(kind) == <<"get_definition">>

\* the calls a constructor makes on its transport between simulator.start
\* and the checks of the definition
TransportCallsBefore(kind) ==
    IF kind = "ScholaDataCollector" THEN <<"get_definition">>
    ELSE <<"send_startup_msg", "get_definition">>

\* the calls it makes after the checks passed
TransportCallsAfter(kind) ==
    IF kind = "ScholaDataCollector" THEN <<"send_startup_msg">> ELSE << >>

\* the definitions a transport can report: up to MaxLifeEnvs environments of
\* up to MaxAgentsPerEnv agents
LifeAgentLists == {SubSeq(<<"a", "b", "c", "d">>, 1, k) : k \in 0..MaxAgentsPerEnv}
LifePopulations == UNION {[1..n -> LifeAgentLists] : n \in 0..MaxLifeEnvs}

LifeInit ==
    /\ l_kind \in Kinds
    /\ l_sim \in Simulators
    /\ l_ids \in LifePopulations
    /\ l_odd \in 0..num_ids(l_ids)
    /\ l_spaces = EmptyDict
    /\ \E prestarted \in {"none", "protocol", "both"} :
        /\ tcp_socket = IF prestarted = "none" THEN "None" ELSE "open"
        /\ channel = IF prestarted = "none" THEN "None" ELSE "open"
        /\ env_process = IF prestarted = "both" /\ l_sim = "UnrealExecutable"
                         THEN "running" ELSE "None"
        /\ h_open = (prestarted # "none")
    /\ l_pc = "new"
    /\ l_closed = FALSE
    /\ l_call = "none"
    /\ l_err = "none"
    /\ l_err_env = NoEnvId
    /\ l_log = << >>
    /\ l_ops = 0
    /\ l_sent = 0
    /\ h_was_open = FALSE

\* the constructor of the adapter, from protocol.start to its return or raise
Construct ==
    /\ l_pc = "new"
    /\ l_call' = "construct"
    /\ LET skip_start == l_kind \in RayKinds /\ protocol_bool(tcp_socket, channel)
           started == IF skip_start
                      THEN [tcp_socket |-> tcp_socket, channel |-> channel]
                      ELSE protocol_start(tcp_socket, channel)
           log_start == IF skip_start THEN << >> ELSE <<"start">>
           sim == simulator_start(l_sim, env_process)
           defn == define_environment(l_kind, l_ids, l_odd)
           closed == protocol_close(started.tcp_socket, started.channel)
       IN  /\ IF sim.error # "none"
              THEN /\ l_pc' = "failed"
                   /\ l_err' = sim.error
                   /\ l_err_env' = NoEnvId
                   /\ l_log' = log_start \o <<"simulator.start">>
                   /\ tcp_socket' = started.tcp_socket
                   /\ channel' = started.channel
                   /\ h_open' = TRUE
                   /\ UNCHANGED <<env_process, l_sent, h_was_open>>
              ELSE IF defn.error # "none" /\ defn.teardown
              THEN /\ l_pc' = "failed"
                   /\ l_err' = defn.error
                   /\ l_err_env' = defn.env_id
                   /\ l_log' = log_start \o <<"simulator.start">>
                                \o TransportCallsBefore(l_kind)
                                \o <<"close", "simulator.stop">>
                   /\ tcp_socket' = closed.tcp_socket
                   /\ channel' = closed.channel
                   /\ l_sent' = closed.sent
                   /\ h_open' = FALSE
                   /\ h_was_open' = TRUE
                   /\ env_process' = simulator_stop(l_sim, sim.env_process)
              ELSE /\ l_pc' = IF defn.error # "none" THEN "failed" ELSE "ready"
                   /\ l_err' = defn.error
                   /\ l_err_env' = defn.env_id
                   /\ l_log' = log_start \o <<"simulator.start">>
                                \o TransportCallsBefore(l_kind)
                                \o (IF defn.error # "none" THEN << >>
                                    ELSE TransportCallsAfter(l_kind))
                   /\ tcp_socket' = started.tcp_socket
                   /\ channel' = started.channel
                   /\ env_process' = sim.env_process
                   /\ h_open' = TRUE
                   /\ UNCHANGED <<l_sent, h_was_open>>
    /\ l_spaces' = IF l_pc' = "ready" /\ l_kind \in RayKinds
                   THEN build_spaces(l_ids, l_odd) ELSE EmptyDict
    /\ UNCHANGED <<l_kind, l_sim, l_ids, l_odd, l_closed, l_ops>>
    /\ UNCHANGED lifeRest

\* reset of a constructed adapter (ScholaDataCollector.reset raises without a
\* call on the transport)
LifeReset ==
    /\ l_pc = "ready"
    /\ ~l_closed
    /\ l_ops < MaxCalls
    /\ l_ops' = l_ops + 1
    /\ l_call' = "reset"
    /\ IF l_kind = "ScholaDataCollector"
       THEN l_err' = "NotImplementedError" /\ UNCHANGED l_log
       ELSE l_err' = "none" /\ l_log' = Append(l_log, "reset")
    /\ l_err_env' = NoEnvId
    /\ UNCHANGED <<l_kind, l_sim, l_ids, l_odd, l_spaces, tcp_socket, channel, env_process, l_pc,
                   l_closed, l_sent, h_open, h_was_open>>
    /\ UNCHANGED lifeRest

\* step of a constructed adapter (ScholaDataCollector.step reads get_data)
LifeStep ==
    /\ l_pc = "ready"
    /\ ~l_closed
    /\ l_ops < MaxCalls
    /\ l_ops' = l_ops + 1
    /\ l_call' = "step"
    /\ l_err' = "none"
    /\ l_err_env' = NoEnvId
    /\ l_log' = Append(l_log, IF l_kind = "ScholaDataCollector" THEN "get_data" ELSE "step")
    /\ UNCHANGED <<l_kind, l_sim, l_ids, l_odd, l_spaces, tcp_socket, channel, env_process, l_pc,
                   l_closed, l_sent, h_open, h_was_open>>
    /\ UNCHANGED lifeRest

\* close of a constructed adapter: protocol.close() then simulator.stop()
LifeClose ==
    /\ l_pc = "ready"
    /\ l_ops < MaxCalls
    /\ l_ops' = l_ops + 1
    /\ l_call' = "close"
    /\ l_err' = "none"
    /\ l_err_env' = NoEnvId
    /\ l_log' = l_log \o <<"close", "simulator.stop">>
    /\ \E closed \in {protocol_close(tcp_socket, channel)} :
        /\ tcp_socket' = closed.tcp_socket
        /\ channel' = closed.channel
        /\ l_sent' = closed.sent
    /\ env_process' = simulator_stop(l_sim, env_process)
    /\ l_closed' = TRUE
    /\ h_open' = FALSE
    /\ h_was_open' = h_open
    /\ UNCHANGED <<l_kind, l_sim, l_ids, l_odd, l_spaces, l_pc>>
    /\ UNCHANGED lifeRest

\* close called on the transport itself, at any time: before the adapter is
\* constructed, or by the caller cleaning up after a constructor that raised
ProtocolClose ==
    /\ l_pc # "ready"
    /\ l_ops < MaxCalls
    /\ l_ops' = l_ops + 1
    /\ l_call' = "close"
    /\ l_err' = "none"
    /\ l_err_env' = NoEnvId
    /\ \E closed \in {protocol_close(tcp_socket, channel)} :
        /\ tcp_socket' = closed.tcp_socket
        /\ channel' = closed.channel
        /\ l_sent' = closed.sent
    /\ h_open' = FALSE
    /\ h_was_open' = h_open
    /\ UNCHANGED <<l_kind, l_sim, l_ids, l_odd, l_spaces, env_process, l_pc, l_closed, l_log>>
    /\ UNCHANGED lifeRest

LifeNext == Construct \/ LifeReset \/ LifeStep \/ LifeClose \/ ProtocolClose

\* ------------------------------------------------------------------------
\* RayEnv and RayVecEnv (rllib/env.py) over the PettingZoo servicers
\* (Test/envs/pettingzoo_server.py)
\* ------------------------------------------------------------------------
\* the agent lists a definition can give an environment: the servicers define
\* every environment with the possible_agents of its PettingZoo environment
RayAgentLists == {<<"high_level">>, <<"high_level", "low_level_0">>}

\* a possible_agents that keeps only the first agent of every environment
possible_agents_heads(ids) == {ids[e][1] : e \in {d \in DOMAIN ids : Len(ids[d]) > 0}}

\* possible_agents = list(set(chain.from_iterable(ids))): every agent id of
\* the definition
possible_agents(ids) == UNION {SeqRange(ids[e]) : e \in DOMAIN ids}

\* A PettingZoo environment as the servicers see it.  reset() returns
\* observations of the agents the episode starts with; step() returns
\* observations, terminations and truncations of the agents it reports, and an
\* agent it has reported done is not reported again before the next reset
\* (DynamicAgentEnv drops it from self.agents).  Which live agents a step
\* reports is the environment's choice: HierarchicalEnv reports high_level at
\* reset and only the low-level agents on the step after.
\* agents are the possible_agents of the environment, done the agents it
\* has reported done in the episode.
PettingZooReset(agents) ==
    {[obs |-> R, terminateds |-> {}, truncateds |-> {}] : R \in SUBSET agents \ {{}}}

PettingZooStep(agents, done) ==
    UNION {{[obs |-> R, terminateds |-> T, truncateds |-> U] :
                T \in SUBSET R, U \in SUBSET R} :
            R \in SUBSET (agents \ done)}

\* all(terminations.values()) or all(truncations.values()) of a step result
\* of the environment; all() of an empty dict is True
AllDone(resp) == resp.terminateds = resp.obs \/ resp.truncateds = resp.obs

\* keys of the action dict the caller passes for environment e: the agents
\* the last return gave an observation of and did not report done
ActedAgents(e) == r_obs[e] \ (r_terminateds[e] \cup r_truncateds[e])

\* VecPettingZooToGymServiceServicer.UpdateState, step branch under NextStep
\* (the policy BaseRayEnv.__init__ sends), for environment e: the response
\* choices of the environment.  An environment marked in _autoreset_envs is
\* reset and reported with False flags for every possible agent.
VecPettingZooStepEnv(e) ==
    IF pz_autoreset[e] THEN PettingZooReset(SeqRange(r_ids[e]))
    ELSE PettingZooStep(SeqRange(r_ids[e]), pz_done[e])

\* the step loop over the environments: every batch of responses that takes
\* the response of environment e from choices[e]
RECURSIVE ResponseBatches(_, _)
ResponseBatches(choices, n) ==
    IF n = 0 THEN {<< >>}
    ELSE {Append(b, r) : b \in ResponseBatches(choices, n - 1), r \in choices[n]}

\* the first environment of the step loop whose assert on the action dict
\* fails, 0: none
VecPettingZooFirstError ==
    LET bad == {e \in 1..Len(pz_autoreset) : ~pz_autoreset[e] /\ ActedAgents(e) = {}}
    IN  IF bad = {} THEN 0 ELSE CHOOSE e \in bad : \A f \in bad : e <= f

\* terminateds["__all__"] raised by the first agent that is done
TerminatedAllAny(current, terminated, truncated) == terminated \cup truncated # {}

\* truncateds["__all__"] raised by the first truncated agent
TruncatedAllAny(current, terminated, truncated) == truncated # {}

\* the "__all__" flags of one environment, from its liveness sets after the step
TerminatedAll(current, terminated, truncated) ==
    LET agents_in_this_env == current \cup terminated \cup truncated
        num_done == Cardinality(terminated \cup truncated)
        num_total == Cardinality(agents_in_this_env)
    IN  IF num_total > 0 THEN num_done = num_total ELSE FALSE

TruncatedAll(current, terminated, truncated) ==
    LET agents_in_this_env == current \cup terminated \cup truncated
        num_total == Cardinality(agents_in_this_env)
    IN  IF num_total > 0 THEN Cardinality(truncated) = num_total ELSE FALSE

\* the liveness sets with the agents that ended on this step left in the
\* active set
RayEnvTrackingKept(current, terminated, truncated, resp) ==
    [current |-> resp.obs,
     terminated |-> terminated \cup resp.terminateds,
     truncated |-> truncated \cup resp.truncateds,
     reset_on_next_step |-> FALSE]

\* RayEnv.step, lines 404-423: the liveness sets after a step.  The active
\* set is rebuilt from the agents of this step's terminateds and truncateds
\* alone.
RayEnvTracking(current, terminated, truncated, resp) ==
    LET all_agents_this_step == resp.obs
        current_active_agents ==
            {a \in all_agents_this_step :
                ~(a \in resp.terminateds \/ a \in resp.truncateds)}
    IN  [current |-> current_active_agents,
         terminated |-> terminated \cup resp.terminateds,
         truncated |-> truncated \cup resp.truncateds,
         reset_on_next_step |-> FALSE]

\* _SingleEnvWrapper._reset
WrapperReset(observed) ==
    [current |-> observed, terminated |-> {}, truncated |-> {},
     reset_on_next_step |-> FALSE]

\* _SingleEnvWrapper._step
WrapperStep(current, terminated, truncated, reset_on_next_step, resp) ==
    IF reset_on_next_step
    THEN WrapperReset(resp.obs)
    ELSE LET observed_agents == resp.obs
             new_terminated == terminated \cup resp.terminateds
             new_truncated == truncated \cup resp.truncateds
         IN  [current |-> (current \cup observed_agents)
                              \ (new_terminated \cup new_truncated),
              terminated |-> new_terminated,
              truncated |-> new_truncated,
              reset_on_next_step |-> FALSE]


\* the adapter as its constructor leaves it: RayEnv._define_environment sets
\* _current_agents to possible_agents and agents to [], a wrapper starts
\* with empty sets
RayInit ==
    /\ r_kind \in RayKinds
    /\ \E n \in 1..MaxRayEnvs :
        /\ r_kind = "RayEnv" => n = 1
        /\ r_ids \in [1..n -> RayAgentLists]
        /\ r_possible = possible_agents(r_ids)
        /\ pz_done = [e \in 1..n |-> {}]
        /\ pz_autoreset = [e \in 1..n |-> FALSE]
        /\ r_current = [e \in 1..n |->
                           IF r_kind = "RayEnv" THEN r_possible ELSE {}]
        /\ r_terminated = [e \in 1..n |-> {}]
        /\ r_truncated = [e \in 1..n |-> {}]
        /\ r_reset_on_next_step = [e \in 1..n |-> FALSE]
        /\ r_agents = [e \in 1..n |-> {}]
        /\ r_obs = [e \in 1..n |-> {}]
        /\ r_terminateds = [e \in 1..n |-> {}]
        /\ r_truncateds = [e \in 1..n |-> {}]
        /\ r_term_all = [e \in 1..n |-> FALSE]
        /\ r_trunc_all = [e \in 1..n |-> FALSE]
        /\ h_seen = [e \in 1..n |-> {}]
    /\ r_call = "init"
    /\ r_err = "none"

\* the values a call that returns nothing leaves in the return variables
NoAgents(n) == [e \in 1..n |-> {}]
NoFlags(n) == [e \in 1..n |-> FALSE]

\* RayEnv.reset over PettingZooToGymServiceServicer.UpdateState, reset branch
RayEnvReset ==
    /\ r_kind = "RayEnv"
    /\ \E resp \in PettingZooReset(SeqRange(r_ids[1])) :
        /\ pz_done' = <<{}>>
        /\ r_current' = <<resp.obs>>
        /\ r_agents' = <<resp.obs>>
        /\ r_obs' = <<resp.obs>>
        /\ h_seen' = <<resp.obs>>
    /\ r_terminated' = <<{}>>
    /\ r_truncated' = <<{}>>
    /\ r_terminateds' = NoAgents(1)
    /\ r_truncateds' = NoAgents(1)
    /\ r_term_all' = NoFlags(1)
    /\ r_trunc_all' = NoFlags(1)
    /\ r_call' = "reset"
    /\ r_err' = "none"
    /\ UNCHANGED <<r_kind, r_ids, r_possible, pz_autoreset, r_reset_on_next_step>>
    /\ UNCHANGED rayRest

\* RayEnv.step over PettingZooToGymServiceServicer.UpdateState, step branch:
\* the servicer steps its environment on every step message
RayEnvStep ==
    /\ r_kind = "RayEnv"
    /\ r_call # "init"
    /\ \E resp \in PettingZooStep(SeqRange(r_ids[1]), pz_done[1]) :
        LET t == RayEnvTracking(r_current[1], r_terminated[1], r_truncated[1], resp)
        IN  /\ pz_done' = <<pz_done[1] \cup resp.terminateds \cup resp.truncateds>>
            /\ r_current' = <<t.current>>
            /\ r_terminated' = <<t.terminated>>
            /\ r_truncated' = <<t.truncated>>
            /\ r_agents' = <<IF t.current # {} THEN t.current ELSE r_possible>>
            /\ r_obs' = <<resp.obs>>
            /\ r_terminateds' = <<resp.terminateds>>
            /\ r_truncateds' = <<resp.truncateds>>
            /\ r_term_all' = <<TerminatedAll(t.current, t.terminated, t.truncated)>>
            /\ r_trunc_all' = <<TruncatedAll(t.current, t.terminated, t.truncated)>>
            /\ h_seen' = <<h_seen[1] \cup resp.obs>>
    /\ r_call' = "step"
    /\ r_err' = "none"
    /\ UNCHANGED <<r_kind, r_ids, r_possible, pz_autoreset, r_reset_on_next_step>>
    /\ UNCHANGED rayRest

\* RayVecEnv.reset over VecPettingZooToGymServiceServicer.UpdateState, reset
\* branch: every environment is reset, _autoreset_envs is left as it is
RayVecEnvReset ==
    /\ r_kind = "RayVecEnv"
    /\ LET n == Len(r_current)
       IN  /\ \E resps \in ResponseBatches([e \in 1..n |-> PettingZooReset(SeqRange(r_ids[e]))], n) :
                /\ r_current' = [e \in 1..n |-> WrapperReset(resps[e].obs).current]
                /\ r_agents' = [e \in 1..n |-> WrapperReset(resps[e].obs).current]
                /\ r_obs' = [e \in 1..n |-> resps[e].obs]
                /\ h_seen' = [e \in 1..n |-> resps[e].obs]
           /\ pz_done' = NoAgents(n)
           /\ r_terminated' = NoAgents(n)
           /\ r_truncated' = NoAgents(n)
           /\ r_reset_on_next_step' = NoFlags(n)
           /\ r_terminateds' = NoAgents(n)
           /\ r_truncateds' = NoAgents(n)
           /\ r_term_all' = NoFlags(n)
           /\ r_trunc_all' = NoFlags(n)
    /\ r_call' = "reset"
    /\ r_err' = "none"
    /\ UNCHANGED <<r_kind, r_ids, r_possible, pz_autoreset>>
    /\ UNCHANGED rayRest

\* RayVecEnv.step over VecPettingZooToGymServiceServicer.UpdateState, step
\* branch.  When the assert of environment k fails the environments before k
\* have been stepped, _autoreset_envs is not updated and the adapter, which
\* gets the exception from send_action_msg, tracks nothing.
\* send_action_msg looks every acting agent up in the action spaces, which
\* _build_spaces took from the first environment of the definition only
ActionKeyError ==
    \E e \in 1..Len(r_current) : ~(ActedAgents(e) \subseteq SeqRange(r_ids[1]))

RayVecEnvStep ==
    /\ r_kind = "RayVecEnv"
    /\ r_call # "init"
    /\ r_err = "none"
    /\ IF ActionKeyError
       THEN /\ r_err' = "KeyError"
            /\ r_obs' = NoAgents(Len(r_current))
            /\ r_terminateds' = NoAgents(Len(r_current))
            /\ r_truncateds' = NoAgents(Len(r_current))
            /\ r_term_all' = NoFlags(Len(r_current))
            /\ r_trunc_all' = NoFlags(Len(r_current))
            /\ UNCHANGED <<pz_done, pz_autoreset, r_current, r_terminated, r_truncated,
                           r_reset_on_next_step, r_agents, h_seen>>
       ELSE
       LET n == Len(r_current)
           k == VecPettingZooFirstError
           stepped == IF k = 0 THEN 1..n ELSE 1..(k - 1)
           quiet == [obs |-> {}, terminateds |-> {}, truncateds |-> {}]
           choices == [e \in 1..n |->
                        IF e \in stepped THEN VecPettingZooStepEnv(e) ELSE {quiet}]
       IN  \E resps \in ResponseBatches(choices, n) :
            /\ pz_done' = [e \in 1..n |->
                    IF e \notin stepped THEN pz_done[e]
                    ELSE IF pz_autoreset[e] THEN {}
                    ELSE pz_done[e] \cup resps[e].terminateds \cup resps[e].truncateds]
            /\ IF k # 0
               THEN /\ r_err' = "AssertionError"
                    /\ r_obs' = NoAgents(n)
                    /\ r_terminateds' = NoAgents(n)
                    /\ r_truncateds' = NoAgents(n)
                    /\ r_term_all' = NoFlags(n)
                    /\ r_trunc_all' = NoFlags(n)
                    /\ UNCHANGED <<pz_autoreset, r_current, r_terminated, r_truncated,
                                   r_reset_on_next_step, r_agents, h_seen>>
               ELSE LET w == [e \in 1..n |->
                                WrapperStep(r_current[e], r_terminated[e], r_truncated[e],
                                            r_reset_on_next_step[e], resps[e])]
                        term_all == [e \in 1..n |->
                                TerminatedAll(w[e].current, w[e].terminated, w[e].truncated)]
                        trunc_all == [e \in 1..n |->
                                TruncatedAll(w[e].current, w[e].terminated, w[e].truncated)]
                    IN  /\ r_err' = "none"
                        /\ pz_autoreset' = [e \in 1..n |->
                                IF pz_autoreset[e] THEN FALSE ELSE AllDone(resps[e])]
                        /\ r_current' = [e \in 1..n |-> w[e].current]
                        /\ r_terminated' = [e \in 1..n |-> w[e].terminated]
                        /\ r_truncated' = [e \in 1..n |-> w[e].truncated]
                        /\ r_reset_on_next_step' = [e \in 1..n |->
                                w[e].reset_on_next_step \/ term_all[e] \/ trunc_all[e]]
                        /\ r_agents' = [e \in 1..n |-> w[e].current]
                        /\ r_obs' = [e \in 1..n |-> resps[e].obs]
                        /\ r_terminateds' = [e \in 1..n |-> resps[e].terminateds]
                        /\ r_truncateds' = [e \in 1..n |-> resps[e].truncateds]
                        /\ r_term_all' = term_all
                        /\ r_trunc_all' = trunc_all
                        /\ h_seen' = [e \in 1..n |->
                                IF r_reset_on_next_step[e] THEN resps[e].obs
                                ELSE h_seen[e] \cup resps[e].obs]
    /\ r_call' = "step"
    /\ UNCHANGED <<r_kind, r_ids, r_possible>>
    /\ UNCHANGED rayRest

RayNext == RayEnvReset \/ RayEnvStep \/ RayVecEnvReset \/ RayVecEnvStep

\* ------------------------------------------------------------------------
\* sb3 VecEnv (sb3/env.py) over gRPCProtocol and the vector PettingZoo
\* servicer in the SAME_STEP mode its constructor asks for
\* ------------------------------------------------------------------------
\* the agents of one environment: a PettingZoo environment with a fixed
\* population (pistonball_v6 of the tests), of one or of two agents
Sb3AgentLists == {<<"piston_0">>, <<"piston_0", "piston_1">>}

\* the actions of the caller (zero_acts of test_vecenv_terminal_obs)
Sb3ActionVals == {0}

\* dict.get(key, default)
DictGet(d, key, default) == IF key \in DOMAIN d THEN d[key] ELSE default

\* all(d.values())
AllValues(d) == \A k \in DOMAIN d : d[k]

\* env.reset(): every agent observes the start of the episode
ParallelEnvReset(agents) == [a \in agents |-> 0]

\* env.step(actions): every agent observes the step count and is rewarded
\* its action; the environment decides which agents terminate or truncate
ParallelEnvStep(agents, count, actions) ==
    {[obs |-> [a \in agents |-> count + 1],
      rew |-> [a \in agents |-> actions[a]],
      term |-> [a \in agents |-> a \in T],
      trunc |-> [a \in agents |-> a \in U]] : T \in SUBSET agents, U \in SUBSET agents}

\* the SAME_STEP branch: the environment is reset in the same call when all
\* its agents terminated or all its agents truncated
SameStepAllDone(st) == AllValues(st.term) \/ AllValues(st.trunc)

\* the choices of every environment put together into one response
RECURSIVE Sb3Outcomes(_, _)
Sb3Outcomes(choices, n) ==
    IF n = 0 THEN {<< >>}
    ELSE {Append(b, c) : b \in Sb3Outcomes(choices, n - 1), c \in choices[n]}

\* dones taken from the terminations alone
array_dones_terminated(ids, terminateds, truncateds) ==
    LET uids == id_map(ids) IN
    [k \in 1..num_ids(ids) |->
        LET p == CHOOSE p \in AgentSlots(ids) : uids[p[1]][ids[p[1]][p[2]]] = k - 1
        IN  DictGet(terminateds[p[1]], ids[p[1]][p[2]], FALSE)]

\* the first loop of step_wait: dones, written at the flat id of every pair
array_dones(ids, terminateds, truncateds) ==
    LET uids == id_map(ids) IN
    [k \in 1..num_ids(ids) |->
        LET p == CHOOSE p \in AgentSlots(ids) : uids[p[1]][ids[p[1]][p[2]]] = k - 1
            agent_id == ids[p[1]][p[2]]
        IN  DictGet(terminateds[p[1]], agent_id, FALSE)
                \/ DictGet(truncateds[p[1]], agent_id, FALSE)]

\* no environment is taken to be in mixed completion
MixedEnvsNone(ids, dones) == {}

\* the environments of which some agent is done and some agent is not
MixedEnvs(ids, dones) ==
    LET uids == id_map(ids) IN
    {e \in DOMAIN ids :
        /\ \E a \in SeqRange(ids[e]) : dones[uids[e][a] + 1]
        /\ \E a \in SeqRange(ids[e]) : ~dones[uids[e][a] + 1]}

\* the last loop of step_wait: the infos of the agents of the environments
\* that came with an initial observation
TerminalInfos(ids, resp) ==
    LET pairs == id_list(ids) IN
    [k \in 1..num_ids(ids) |->
        LET pair == pairs[k]
            e == pair[1] + 1
        IN  IF e \in DOMAIN resp.initial_obs
            THEN [key \in {"terminal_observation", "TimeLimit.truncated"} |->
                    IF key = "terminal_observation" THEN resp.observations[e][pair[2]]
                    ELSE resp.truncateds[e][pair[2]] /\ ~resp.terminateds[e][pair[2]]]
            ELSE EmptyDict]

\* a batch no call has filled
NoBatch == << >>

Sb3Init ==
    /\ \E n \in 1..MaxSb3Envs :
        /\ sb_ids \in [1..n -> Sb3AgentLists]
        /\ sb_count = [e \in 1..n |-> 0]
    /\ sb_call = "init"
    /\ sb_err = "none"
    /\ sb_resp = NoBatch
    /\ sb_obs = NoBatch
    /\ sb_rew = NoBatch
    /\ sb_dones = NoBatch
    /\ sb_infos = NoBatch

\* VecEnv.reset(): the servicer resets every environment
Sb3Reset ==
    /\ sb_call' = "reset"
    /\ sb_err' = "none"
    /\ sb_count' = [e \in DOMAIN sb_ids |-> 0]
    /\ sb_resp' = NoBatch
    /\ sb_obs' = flatten_list_of_dicts(sb_ids,
                    [e \in DOMAIN sb_ids |-> ParallelEnvReset(SeqRange(sb_ids[e]))], None)
    /\ sb_rew' = NoBatch
    /\ sb_dones' = NoBatch
    /\ sb_infos' = NoBatch
    /\ UNCHANGED sb_ids
    /\ UNCHANGED sb3Rest

\* VecEnv.step(actions): step_async, then step_wait
Sb3Step ==
    /\ sb_call # "init"
    /\ \A e \in DOMAIN sb_count : sb_count[e] < MaxSb3Count
    /\ \E actions \in [1..num_ids(sb_ids) -> Sb3ActionVals] :
        LET n == Len(sb_ids)
            next_actions == nest_list_to_dict_of_dicts(sb_ids, actions, None)
            choices == [e \in 1..n |->
                ParallelEnvStep(SeqRange(sb_ids[e]), sb_count[e], next_actions[e])]
        IN  \E st \in Sb3Outcomes(choices, n) :
            \E resp \in {[observations |-> [e \in 1..n |-> st[e].obs],
                          rewards |-> [e \in 1..n |-> st[e].rew],
                          terminateds |-> [e \in 1..n |-> st[e].term],
                          truncateds |-> [e \in 1..n |-> st[e].trunc],
                          initial_obs |-> [e \in {d \in 1..n : SameStepAllDone(st[d])} |->
                                             ParallelEnvReset(SeqRange(sb_ids[e]))]]} :
            \E dones \in {array_dones(sb_ids, resp.terminateds, resp.truncateds)} :
                /\ sb_count' = [e \in 1..n |->
                        IF SameStepAllDone(st[e]) THEN 0 ELSE sb_count[e] + 1]
                /\ sb_resp' = resp
                /\ IF MixedEnvs(sb_ids, dones) # {}
                   THEN /\ sb_err' = "EnvironmentException"
                        /\ sb_obs' = NoBatch
                        /\ sb_rew' = NoBatch
                        /\ sb_dones' = NoBatch
                        /\ sb_infos' = NoBatch
                   ELSE /\ sb_err' = "none"
                        /\ sb_obs' = flatten_list_of_dicts(sb_ids,
                                FoldedObservations(resp.observations, resp.initial_obs), None)
                        /\ sb_rew' = flatten_list_of_dicts(sb_ids, resp.rewards, None)
                        /\ sb_dones' = dones
                        /\ sb_infos' = TerminalInfos(sb_ids, resp)
    /\ sb_call' = "step"
    /\ UNCHANGED sb_ids
    /\ UNCHANGED sb3Rest

Sb3Next == Sb3Reset \/ Sb3Step

\* ------------------------------------------------------------------------
\* ScholaDataCollector (minari/datacollector.py) over gRPCImitationProtocol
\* and GymToImitationServiceServicer (Test/envs/imitation_server.py)
\* ------------------------------------------------------------------------
MaxCollectorSteps == 4

\* what env.step decides about the episode
EpisodeOutcomes == {"running", "terminated", "truncated"}

\* an observation tells the episode and the step in it; no observation
NoObs == << >>

\* the state after ScholaDataCollector.__init__: StartImitationConnector has
\* reset the environment and holds its initial observation
DcInit ==
    /\ dc_episode = 1
    /\ dc_count = 0
    /\ dc_pending = <<1, 0>>
    /\ dc_needs = TRUE
    /\ dc_initial = NoObs
    /\ dc_err = "none"
    /\ dc_log = << >>

\* ScholaDataCollector.step(): get_data (RequestState of the servicer and
\* from_proto), the first reset, the step, the reset at the end of an episode
DcStep ==
    /\ Cardinality({i \in DOMAIN dc_log : dc_log[i].call = "step"}) < MaxCollectorSteps
    /\ \E outcome \in EpisodeOutcomes :
        LET obs == <<dc_episode, dc_count + 1>>
            done == outcome # "running"
            initial_obs == IF dc_pending # NoObs
                           THEN [e \in {0} |-> [a \in {SingleAgent} |-> dc_pending]]
                           ELSE EmptyDict
            first == dc_needs /\ 0 \in DOMAIN initial_obs
                        /\ SingleAgent \in DOMAIN initial_obs[0]
            log1 == IF first
                    THEN Append(dc_log, [call |-> "reset", obs |-> initial_obs[0][SingleAgent],
                                         terminations |-> FALSE, truncations |-> FALSE])
                    ELSE dc_log
            log2 == Append(log1, [call |-> "step", obs |-> obs,
                                  terminations |-> (outcome = "terminated"),
                                  truncations |-> (outcome = "truncated")])
        IN  /\ dc_episode' = IF done THEN dc_episode + 1 ELSE dc_episode
            /\ dc_count' = IF done THEN 0 ELSE dc_count + 1
            /\ dc_pending' = IF done THEN <<dc_episode + 1, 0>> ELSE NoObs
            /\ dc_needs' = IF first THEN FALSE ELSE dc_needs
            /\ IF done /\ 0 \in DOMAIN initial_obs
               THEN /\ dc_err' = "none"
                    /\ dc_initial' = initial_obs[0][SingleAgent]
                    /\ dc_log' = Append(log2, [call |-> "reset",
                                               obs |-> initial_obs[0][SingleAgent],
                                               terminations |-> FALSE,
                                               truncations |-> FALSE])
               ELSE /\ dc_err' = IF done THEN "KeyError" ELSE "none"
                    /\ dc_initial' = IF first THEN initial_obs[0][SingleAgent] ELSE dc_initial
                    /\ dc_log' = log2
    /\ UNCHANGED dcRest

\* ------------------------------------------------------------------------
\* Specifications
\* ------------------------------------------------------------------------
vars == <<imVars, vecVars, gymVars, lifeVars, rayVars, sb3Vars, dcVars>>

ImIdle ==
    /\ im_pc = "idle"
    /\ im_ids = << >>
    /\ im_x = << >>
    /\ im_nested = << >>
    /\ im_flat = << >>
    /\ im_uid = 0
    /\ im_pair = <<0, None>>
    /\ im_back = 0
    /\ im_some = << >>
    /\ im_default = None
    /\ im_some_flat = << >>

VecIdle ==
    /\ v_ids = << >>
    /\ srv_mode = "Disabled"
    /\ srv_count = << >>
    /\ srv_autoreset = << >>
    /\ env_max = << >>
    /\ env_limit = 0
    /\ v_call = "idle"
    /\ v_err = "none"
    /\ v_act = << >>
    /\ v_obs = << >>
    /\ v_rew = << >>
    /\ v_term = << >>
    /\ v_trunc = << >>
    /\ v_final_obs = << >>
    /\ v_final_mask = << >>
    /\ v_initial = << >>
    /\ v_options = "None"
    /\ v_seed = SeedNone
    /\ v_seed_sequence = NoSeedSequence
    /\ v_sent = NoMessage
    /\ v_resp = NoResponse
    /\ h_seeded = << >>
    /\ h_prev_done = << >>
    /\ h_step_done = << >>
    /\ h_prev_count = << >>

GymIdle ==
    /\ g_count = NoCount
    /\ g_max = 0
    /\ g_limit = 0
    /\ g_call = "idle"
    /\ g_err = "none"
    /\ g_act = NoResult
    /\ g_obs = NoResult
    /\ g_rew = NoResult
    /\ g_term = FALSE
    /\ g_trunc = FALSE
    /\ h_g_done = FALSE

LifeIdle ==
    /\ l_kind = "idle"
    /\ l_sim = "idle"
    /\ l_ids = << >>
    /\ l_odd = 0
    /\ l_spaces = << >>
    /\ tcp_socket = "None"
    /\ channel = "None"
    /\ env_process = "None"
    /\ l_pc = "idle"
    /\ l_closed = FALSE
    /\ l_call = "none"
    /\ l_err = "none"
    /\ l_err_env = NoEnvId
    /\ l_log = << >>
    /\ l_ops = 0
    /\ l_sent = 0
    /\ h_open = FALSE
    /\ h_was_open = FALSE

RayIdle ==
    /\ r_kind = "idle"
    /\ r_ids = << >>
    /\ r_possible = {}
    /\ pz_done = << >>
    /\ pz_autoreset = << >>
    /\ r_current = << >>
    /\ r_terminated = << >>
    /\ r_truncated = << >>
    /\ r_reset_on_next_step = << >>
    /\ r_agents = << >>
    /\ r_call = "idle"
    /\ r_err = "none"
    /\ r_obs = << >>
    /\ r_terminateds = << >>
    /\ r_truncateds = << >>
    /\ r_term_all = << >>
    /\ r_trunc_all = << >>
    /\ h_seen = << >>

\* the IdManager operations over every population
Sb3Idle ==
    /\ sb_ids = << >>
    /\ sb_count = << >>
    /\ sb_call = "idle"
    /\ sb_err = "none"
    /\ sb_resp = NoBatch
    /\ sb_obs = NoBatch
    /\ sb_rew = NoBatch
    /\ sb_dones = NoBatch
    /\ sb_infos = NoBatch

DcIdle ==
    /\ dc_episode = 0
    /\ dc_count = 0
    /\ dc_pending = << >>
    /\ dc_needs = FALSE
    /\ dc_initial = << >>
    /\ dc_err = "none"
    /\ dc_log = << >>

InitIds == ImInit /\ VecIdle /\ GymIdle /\ LifeIdle /\ RayIdle /\ Sb3Idle /\ DcIdle
SpecIds == InitIds /\ [][ImNext]_vars

\* a GymVectorEnv driven by its caller against the vector servicer
InitVec == VecInit /\ ImIdle /\ GymIdle /\ LifeIdle /\ RayIdle /\ Sb3Idle /\ DcIdle
SpecVec == InitVec /\ [][VecNext]_vars

\* a GymEnv driven by its caller against the single-environment servicer
InitGym == GymInit /\ ImIdle /\ VecIdle /\ LifeIdle /\ RayIdle /\ Sb3Idle /\ DcIdle
SpecGym == InitGym /\ [][GymNext]_vars

\* an adapter of any class constructed over any definition, used and closed
InitLife == LifeInit /\ ImIdle /\ VecIdle /\ GymIdle /\ RayIdle /\ Sb3Idle /\ DcIdle
SpecLife == InitLife /\ [][LifeNext]_vars

\* a RayEnv or a RayVecEnv driven by its caller against its PettingZoo servicer
InitRay == RayInit /\ ImIdle /\ VecIdle /\ GymIdle /\ LifeIdle /\ Sb3Idle /\ DcIdle
SpecRay == InitRay /\ [][RayNext]_vars

\* an sb3 VecEnv driven by its caller against the vector PettingZoo servicer
InitSb3 == Sb3Init /\ ImIdle /\ VecIdle /\ GymIdle /\ LifeIdle /\ RayIdle /\ DcIdle
SpecSb3 == InitSb3 /\ [][Sb3Next]_vars

\* ScholaDataCollector
InitDc == DcInit /\ ImIdle /\ VecIdle /\ GymIdle /\ LifeIdle /\ RayIdle /\ Sb3Idle
SpecDc == InitDc /\ [][DcStep]_vars

\* ------------------------------------------------------------------------
\* Properties of the IdManager (SpecIds)
\* ------------------------------------------------------------------------
\* C1: round-trip law.  For every population and every flat list x of length
\* num_ids, flattening the nesting of x gives x back.
RoundTripLaw == im_pc = "flattened" => im_flat = im_x

\* a round trip over two environments, where the second environment's
\* entries sit behind the first one's and x is not constant
RoundTripWitness ==
    /\ im_pc = "flattened"
    /\ Len(im_ids) = 2
    /\ Len(im_ids[1]) = 2
    /\ Len(im_ids[2]) = 2
    /\ im_x[1] # im_x[3]
    /\ im_x[3] # im_x[4]
    /\ im_flat = im_x

\* C2: index bijection.  For every uid in [0, num_ids), the pair that uid
\* maps to maps back to uid.
IndexBijection == im_pc = "toflat" => im_back = im_uid

\* the last agent of the second environment mapped there and back
IndexBijectionWitness ==
    /\ im_pc = "toflat"
    /\ Len(im_ids) = 2
    /\ im_uid = num_ids(im_ids) - 1
    /\ im_uid >= 2
    /\ im_pair[1] = 1
    /\ im_back = im_uid

\* ------------------------------------------------------------------------
\* Properties of the auto-reset policies (SpecVec)
\* ------------------------------------------------------------------------
StepReturned == v_call = "step" /\ v_err = "none"

\* C3: NextStep policy.  An environment that reports terminated or truncated
\* on a step returns its terminal observation and reward on that step; on the
\* step right after it returns the fresh post-reset observation with reward
\* 0, terminated False and truncated False, while every environment that did
\* not finish is stepped normally with its own action.
NextStepSemantics ==
    (StepReturned /\ srv_mode = "NextStep") =>
        \A i \in DOMAIN v_obs :
            /\ (v_term[i] \/ v_trunc[i]) =>
                    /\ v_obs[i] = h_prev_count[i] + 1
                    /\ v_rew[i] = v_act[i]
            /\ h_prev_done[i] =>
                    /\ v_obs[i] = 0
                    /\ v_rew[i] = 0
                    /\ ~v_term[i]
                    /\ ~v_trunc[i]
            /\ ((\E k \in DOMAIN v_obs : h_prev_done[k]) /\ ~h_prev_done[i]) =>
                    /\ v_obs[i] = h_prev_count[i] + 1
                    /\ v_rew[i] = v_act[i]
                    /\ v_term[i] = (h_prev_count[i] + 1 = env_max[i])
                    /\ v_trunc[i] = (h_prev_count[i] + 1 = env_limit)

\* the step after environment 0 finished alone: it comes back reset with
\* reward 0 while environment 1 takes its action and is truncated
NextStepWitness ==
    /\ StepReturned
    /\ srv_mode = "NextStep"
    /\ Len(v_ids) = 2
    /\ h_prev_done[1]
    /\ ~h_prev_done[2]
    /\ v_obs[1] = 0
    /\ v_rew[1] = 0
    /\ v_obs[2] = 3
    /\ v_rew[2] = v_act[2]
    /\ v_trunc[2]

\* C4: SameStep policy.  On a step where environment i finishes,
\* info["final_obs"][i] is the terminal observation, obs[i] is the fresh
\* post-reset observation, and info["_final_obs"][j] is True only for the
\* environments j that finished on that step.
SameStepSemantics ==
    (StepReturned /\ srv_mode = "SameStep") =>
        \A i \in DOMAIN v_obs :
            /\ (v_term[i] \/ v_trunc[i]) =>
                    /\ v_final_obs[i] = h_prev_count[i] + 1
                    /\ v_obs[i] = 0
            /\ v_final_mask[i] => (v_term[i] \/ v_trunc[i])

\* environment 0 finishes at count 2 while environment 1 goes on
SameStepWitness ==
    /\ StepReturned
    /\ srv_mode = "SameStep"
    /\ Len(v_ids) = 2
    /\ v_term[1]
    /\ ~(v_term[2] \/ v_trunc[2])
    /\ v_final_obs[1] = 2
    /\ v_obs[1] = 0
    /\ v_obs[2] = 2
    /\ v_final_mask = <<TRUE, FALSE>>

\* C5: the initial observations of a step response are filled in only for the
\* environments that reset themselves within that call under the SameStep
\* policy; under the NextStep policy they are never filled in.
InitialOnlyOnSameStepReset ==
    v_call = "step" =>
        /\ \A e \in DOMAIN v_initial :
            /\ srv_mode = "SameStep"
            /\ v_err = "none"
            /\ v_term[e] \/ v_trunc[e]
            /\ srv_count[e] = 0
        /\ srv_mode = "NextStep" => v_initial = EmptyDict

\* a SameStep response that carries the initial observation of the one
\* environment that finished, and a NextStep response that resets an
\* environment without carrying any
InitialOnSameStepWitness ==
    /\ StepReturned
    /\ srv_mode = "SameStep"
    /\ Len(v_ids) = 2
    /\ DOMAIN v_initial = {2}
    /\ v_initial[2][SingleAgent] = 0
    /\ v_trunc[2]

\* ------------------------------------------------------------------------
\* The Disabled policy (SpecGym: GymEnv always starts the transport with it)
\* ------------------------------------------------------------------------
\* C6: under the Disabled policy a step of an environment that reported
\* terminated or truncated on the step before, with no reset in between,
\* raises instead of returning a result.
DisabledStepOfFinishedRaises == (g_call = "step" /\ h_g_done) => g_err # "none"

\* ------------------------------------------------------------------------
\* Properties of construction, call order and close (SpecLife)
\* ------------------------------------------------------------------------
FatalErrors == {"NoEnvironmentsException", "NoAgentsException", "AssertionError"}

\* the last two calls of the log
LastTwoCalls == SubSeq(l_log, Len(l_log) - 1, Len(l_log))

\* C7: when a constructor fails with a construction-time fatal error,
\* transport.close() and then simulator.stop() have been called before the
\* error reaches the caller, and no connection or process is left open.
FatalErrorTearsDown ==
    (l_call = "construct" /\ l_pc = "failed" /\ l_err \in FatalErrors) =>
        /\ Len(l_log) >= 2
        /\ LastTwoCalls = <<"close", "simulator.stop">>
        /\ ~channel_connected(channel)
        /\ env_process # "running"

IsTransportCall(c) == c \notin {"simulator.start", "simulator.stop"}

\* the calls the adapter made on its transport
TransportLog == SelectSeq(l_log, IsTransportCall)

\* the place of a call in start, send_startup_msg, get_definition,
\* (reset | step)*, close
CallRank(c) ==
    CASE c = "start" -> 1
      [] c = "send_startup_msg" -> 2
      [] c = "get_definition" -> 3
      [] c = "close" -> 5
      [] OTHER -> 4

\* the place of a call in the order of the class of the adapter: the data
\* collector gets the definition before it sends the startup message
CallRankOf(kind, c) ==
    IF kind = "ScholaDataCollector" /\ c = "get_definition" THEN 2
    ELSE IF kind = "ScholaDataCollector" /\ c = "send_startup_msg" THEN 3
    ELSE CallRank(c)

Occurrences(log, c) == Cardinality({i \in DOMAIN log : log[i] = c})

\* C8 as stated: for every adapter, the calls on the transport come in the
\* order start, send_startup_msg, get_definition, (reset | step)*, close;
\* send_startup_msg precedes every reset/step; get_definition is called
\* exactly once.
LifecycleOrder ==
    LET log == TransportLog IN
    /\ \A i, j \in DOMAIN log : i < j => CallRank(log[i]) <= CallRank(log[j])
    /\ \A j \in DOMAIN log :
            CallRank(log[j]) = 4 => \E i \in 1..(j - 1) : log[i] = "send_startup_msg"
    /\ Occurrences(log, "get_definition") <= 1
    /\ l_pc = "ready" => Occurrences(log, "get_definition") = 1

\* C8 amended: the order holds for the training adapters (RayEnv and
\* RayVecEnv leave start out on a transport that is already open); the data
\* collector calls start, get_definition, send_startup_msg, then get_data,
\* then close.  get_definition is called at most once, and exactly once by a
\* constructor that returns; send_startup_msg and get_definition precede
\* every reset, step and get_data.
LifecycleOrderOfKind ==
    LET log == TransportLog IN
    /\ \A i, j \in DOMAIN log :
            i < j => CallRankOf(l_kind, log[i]) <= CallRankOf(l_kind, log[j])
    /\ \A j \in DOMAIN log :
            CallRank(log[j]) = 4 =>
                /\ \E i \in 1..(j - 1) : log[i] = "send_startup_msg"
                /\ \E i \in 1..(j - 1) : log[i] = "get_definition"
    /\ \A c \in {"start", "send_startup_msg", "get_definition"} : Occurrences(log, c) <= 1
    /\ l_pc = "ready" =>
            /\ Occurrences(log, "get_definition") = 1
            /\ Occurrences(log, "send_startup_msg") = 1
    /\ (log # << >> /\ l_kind \notin RayKinds) => log[1] = "start"

\* a GymVectorEnv constructed, reset, stepped and closed
LifecycleWitness ==
    /\ l_kind = "GymVectorEnv"
    /\ TransportLog = <<"start", "send_startup_msg", "get_definition", "reset", "step",
                        "close">>

\* C9: close is idempotent.  A close called when the connection is already
\* closed (after an earlier close, after a constructor that tore down, or
\* before any start) raises nothing, sends nothing and leaves it closed.
CloseIdempotent ==
    (l_call = "close" /\ ~h_was_open) =>
        /\ l_err = "none"
        /\ l_sent = 0
        /\ ~channel_connected(channel)
        /\ ~has_socket(tcp_socket)

\* a close by the caller after the constructor failed and tore down
CloseIdempotentWitness ==
    /\ l_call = "close"
    /\ ~h_was_open
    /\ l_pc = "failed"
    /\ l_kind = "GymVectorEnv"
    /\ EmptyEnvs(l_ids) # {}
    /\ Occurrences(l_log, "close") = 1
    /\ l_ops = 1
    /\ l_sent = 0

\* ------------------------------------------------------------------------
\* Claims on the liveness tracking of RayEnv and RayVecEnv
\* ------------------------------------------------------------------------
\* the liveness sets of environment e after a step are the ones the update
\* rule gives from the sets before it and from what the step returned
FollowsUpdateRule(e) ==
    /\ r_terminated'[e] = r_terminated[e] \cup r_terminateds'[e]
    /\ r_truncated'[e] = r_truncated[e] \cup r_truncateds'[e]
    /\ r_current'[e] = (r_current[e] \cup r_obs'[e])
                            \ (r_terminated'[e] \cup r_truncated'[e])

\* C10: on each step of a dynamic-population adapter, single and vectorized,
\* the liveness sets of every environment are updated as
\* terminated := terminated + {a : terminateds[a]},
\* truncated := truncated + {a : truncateds[a]},
\* active := (active + observed agents) - (terminated + truncated).
\* The step on which a wrapper of the vectorized adapter takes up the
\* servicer's automatic reset is left out: it starts the sets afresh.
LivenessUpdate ==
    [][(r_call' = "step" /\ r_err' = "none") =>
          \A e \in 1..Len(r_current) :
              ~r_reset_on_next_step[e] => FollowsUpdateRule(e)]_vars

\* C11: after every step of a dynamic-population adapter,
\* terminateds["__all__"] of an environment is true exactly when the number
\* of agents in terminated + truncated equals the number of all agents seen
\* in the current episode and that number is greater than 0.
TerminatedAllOfSeen ==
    (r_call = "step" /\ r_err = "none") =>
        \A e \in 1..Len(r_current) :
            r_term_all[e] <=>
                /\ Cardinality(h_seen[e]) > 0
                /\ Cardinality(r_terminated[e] \cup r_truncated[e])
                       = Cardinality(h_seen[e])

\* C12: after every step of a dynamic-population adapter,
\* truncateds["__all__"] of an environment is true exactly when the number
\* of truncated agents equals the number of all agents seen in the current
\* episode and that number is greater than 0.
TruncatedAllOfSeen ==
    (r_call = "step" /\ r_err = "none") =>
        \A e \in 1..Len(r_current) :
            r_trunc_all[e] <=>
                /\ Cardinality(h_seen[e]) > 0
                /\ Cardinality(r_truncated[e]) = Cardinality(h_seen[e])

\* C13: whenever a step of a dynamic-population adapter yields a true
\* "__all__" aggregate (terminated or truncated) for an environment, the
\* environment is marked for auto-reset on the next transport call, and the
\* result of that next call is taken as the start of a new episode of it:
\* terminated and truncated sets emptied, active set the observed agents.
\* The mark is _reset_on_next_step, which only the wrappers of RayVecEnv have.
AllStartsNewEpisode ==
    [][\A e \in 1..Len(r_current) :
          (r_call = "step" /\ r_err = "none" /\ (r_term_all[e] \/ r_trunc_all[e])) =>
              /\ r_kind = "RayVecEnv" => r_reset_on_next_step[e]
              /\ r_err' = "none" =>
                    /\ r_terminated'[e] = {}
                    /\ r_truncated'[e] = {}
                    /\ r_current'[e] = r_obs'[e]]_vars

\* C14: single-step visibility.  An agent marked terminated or truncated on
\* step K is in the observation map step K returns, and it is in the
\* observation map of no later step of that episode, an episode lasting
\* until the adapter starts the sets of the environment afresh.
SingleStepVisibility ==
    [][(r_call' = "step" /\ r_err' = "none") =>
          \A e \in 1..Len(r_current) :
              /\ (r_terminateds'[e] \cup r_truncateds'[e]) \subseteq r_obs'[e]
              /\ ~r_reset_on_next_step[e] =>
                    r_obs'[e] \cap (r_terminated[e] \cup r_truncated[e]) = {}]_vars

\* C15: after every reset and every step, agents is exactly the set of the
\* agents currently active: seen in the current episode and neither
\* terminated nor truncated.
AgentsAreActive ==
    (r_call \in {"reset", "step"} /\ r_err = "none") =>
        \A e \in 1..Len(r_current) :
            r_agents[e] = h_seen[e] \ (r_terminated[e] \cup r_truncated[e])


\* C16: possible_agents is the set of all agent ids of the definition the
\* adapter was constructed from, and no sequence of reset and step calls
\* changes it.
PossibleAgentsStatic ==
    r_kind \in RayKinds =>
        r_possible = {a \in UNION {SeqRange(l) : l \in RayAgentLists} :
                        \E e \in DOMAIN r_ids : \E i \in DOMAIN r_ids[e] : r_ids[e][i] = a}

\* after a step in which an agent of the definition has left the active set
PossibleAgentsStaticWitness ==
    /\ r_call = "step"
    /\ r_err = "none"
    /\ \E e \in DOMAIN r_current :
        /\ Len(r_ids[e]) > 1
        /\ r_terminated[e] \cup r_truncated[e] # {}
        /\ r_agents[e] # r_possible


\* the pairs enumerated before position i of environment e (one-based) when
\* environments are taken in order and agents in order within each list
PairsBefore(ids, e, i) ==
    {<<d, j>> \in (DOMAIN ids) \X (1..MaxAgentsPerEnv) :
        j \in DOMAIN ids[d] /\ (d < e \/ (d = e /\ j < i))}

NumIdsIsSum ==
    im_pc # "idle" => num_ids(im_ids) = Cardinality(AgentSlots(im_ids))

\* after a round of lookups on two environments of different sizes
NumIdsIsSumWitness ==
    /\ im_pc = "toflat"
    /\ Len(im_ids) = 2
    /\ Len(im_ids[1]) # Len(im_ids[2])
    /\ Len(im_ids[1]) > 0
    /\ Len(im_ids[2]) > 0
    /\ num_ids(im_ids) = Len(im_ids[1]) + Len(im_ids[2])


\* the adapters whose _define_environment holds the checks for definitions
\* without environments or with environments without agents
ValidatingKinds == {"GymVectorEnv", "VecEnv", "RayEnv", "RayVecEnv"}

\* the constructor has fetched the definition and returned or raised
DefinitionReached ==
    /\ l_call = "construct"
    /\ \E i \in DOMAIN l_log : l_log[i] = "get_definition"

\* C19: constructing a framework adapter when the definition has zero
\* environments raises NoEnvironmentsException.
ZeroEnvironmentsRaise ==
    (DefinitionReached /\ l_kind \in ValidatingKinds
        /\ Len(l_ids) = 0)
        => l_err = "NoEnvironmentsException"

\* C20: constructing a framework adapter when some environment of the
\* definition has zero agents raises NoAgentsException carrying the env_id
\* of such an environment.
ZeroAgentsRaise ==
    (DefinitionReached /\ l_kind \in ValidatingKinds
        /\ (l_kind = "RayEnv" => Len(l_ids) = 1)
        /\ EmptyEnvs(l_ids) # {})
        => /\ l_err = "NoAgentsException"
           /\ l_err_env \in {e - 1 : e \in EmptyEnvs(l_ids)}


\* the adapters that require one space shared by every agent
FixedShapeKinds == {"GymVectorEnv", "VecEnv"}

\* two pairs of the definition have unequal spaces
SpaceMismatch(ids, odd) ==
    \E j, k \in 1..num_ids(ids) : SpaceAt(odd, j) # SpaceAt(odd, k)

\* no reset or step has been passed on to the transport
NoResetOrStep == \A i \in DOMAIN l_log : l_log[i] \notin {"reset", "step"}

Sb3StepCalled == sb_call = "step"

Sb3StepReturned == sb_call = "step" /\ sb_err = "none"

\* the transport reported the agent terminated or truncated on the last step
ReportedDone(e, a) == sb_resp.terminateds[e][a] \/ sb_resp.truncateds[e][a]

\* C22: a step in which one agent of an environment is done (terminated or
\* truncated) and another agent of the same environment is not raises
\* EnvironmentException.
MixedCompletionRejected ==
    (Sb3StepCalled /\ \E e \in DOMAIN sb_ids : \E a, b \in SeqRange(sb_ids[e]) :
                            ReportedDone(e, a) /\ ~ReportedDone(e, b))
        => sb_err = "EnvironmentException"

\* the first agent of an environment terminated, the second goes on
MixedCompletionWitness ==
    /\ Sb3StepCalled
    /\ sb_err = "EnvironmentException"
    /\ \E e \in DOMAIN sb_ids :
        /\ Len(sb_ids[e]) = 2
        /\ sb_resp.terminateds[e][sb_ids[e][1]]
        /\ ~ReportedDone(e, sb_ids[e][2])

\* C23: on every step of the sb3 VecEnv, info[uid] contains
\* "terminal_observation" exactly when dones[uid] is True; when present it is
\* the observation the environment ended on and the returned observation of
\* the slot is the initial observation after the reset.
TerminalObservationIffDone ==
    Sb3StepReturned =>
        \A uid \in 0..(num_ids(sb_ids) - 1) :
            LET pair == get_nested_id(sb_ids, uid)
                e == pair[1] + 1
            IN  /\ ("terminal_observation" \in DOMAIN sb_infos[uid + 1]) <=> sb_dones[uid + 1]
                /\ ("terminal_observation" \in DOMAIN sb_infos[uid + 1]) =>
                        /\ sb_infos[uid + 1]["terminal_observation"]
                                = sb_resp.observations[e][pair[2]]
                        /\ e \in DOMAIN sb_resp.initial_obs
                        /\ sb_obs[uid + 1] = sb_resp.initial_obs[e][pair[2]]

\* C24: for every flat id uid and every step, dones[uid] equals terminated OR
\* truncated as the transport reported them for the pair uid stands for.
DonesAreTerminatedOrTruncated ==
    Sb3StepReturned =>
        \A uid \in 0..(num_ids(sb_ids) - 1) :
            LET pair == get_nested_id(sb_ids, uid)
            IN  sb_dones[uid + 1] = ReportedDone(pair[1] + 1, pair[2])

\* the last agent of the definition is done by truncation alone, the first by
\* termination alone
DonesWitness ==
    /\ Sb3StepReturned
    /\ num_ids(sb_ids) >= 2
    /\ LET last == get_nested_id(sb_ids, num_ids(sb_ids) - 1)
           first == get_nested_id(sb_ids, 0)
       IN  /\ sb_resp.truncateds[last[1] + 1][last[2]]
           /\ ~sb_resp.terminateds[last[1] + 1][last[2]]
           /\ sb_resp.terminateds[first[1] + 1][first[2]]
           /\ ~sb_resp.truncateds[first[1] + 1][first[2]]
           /\ sb_dones[num_ids(sb_ids)]
           /\ sb_dones[1]

\* C25: a reset of GymVectorEnv whose options hold "reset_mask" raises
\* NotImplementedError, and the call hands no reset message to the transport
ResetMaskRejected ==
    (v_call = "reset" /\ v_options = "reset_mask")
        => (v_err = "NotImplementedError" /\ v_sent.msg # "reset")

\* a reset with reset_mask was made on an adapter in the middle of an episode
ResetMaskRejectedWitness ==
    /\ v_call = "reset"
    /\ v_options = "reset_mask"
    /\ v_err = "NotImplementedError"
    /\ \E e \in DOMAIN srv_count : srv_count[e] > 0 /\ srv_count[e] = h_prev_count[e]

\* C30: every reset of GymVectorEnv with an int seed S sends the per-slot
\* seeds that the first reset with the same S sent
SeedingDeterministic ==
    (v_call = "reset" /\ v_err = "none" /\ v_seed.kind = "int")
        => (v_sent.msg = "reset" /\ v_sent.seeds = h_seeded[v_seed.vals[1]].first)

\* a second reset with the same int seed was sent, for two environments that
\* are given different seeds
SeedingDeterministicWitness ==
    /\ v_call = "reset"
    /\ v_err = "none"
    /\ v_seed.kind = "int"
    /\ h_seeded[v_seed.vals[1]].n = 2
    /\ Len(v_sent.seeds) = 2
    /\ v_sent.seeds[1] # v_sent.seeds[2]

\* C26: the first step of every episode the collector replays, the first
\* episode and every later one, comes right after exactly one reset() of the
\* base collector, which returned that episode's initial observation
ResetOncePerEpisode ==
    \A i \in DOMAIN dc_log :
        (/\ dc_log[i].call = "step"
         /\ (i > 1 /\ dc_log[i - 1].call = "step" => dc_log[i - 1].obs[1] # dc_log[i].obs[1]))
        => /\ i > 1
           /\ dc_log[i - 1].call = "reset"
           /\ dc_log[i - 1].obs = <<dc_log[i].obs[1], 0>>
           /\ (i > 2 => dc_log[i - 2].call = "step")

\* C27: flatten_list_of_dicts(nested, default) returns a list of num_ids
\* slots, and the slot of every uid holds nested[env][agent] for the pair
\* ToNested(uid) when the nested list has that item, the default otherwise
FlattenFillsDefault ==
    im_pc = "flattened_some" =>
        /\ Len(im_some_flat) = num_ids(im_ids)
        /\ \A uid \in 0..(num_ids(im_ids) - 1) :
            LET pair == get_nested_id(im_ids, uid)
                e == pair[1] + 1
            IN  im_some_flat[uid + 1] =
                    IF e \in DOMAIN im_some /\ pair[2] \in DOMAIN im_some[e]
                    THEN im_some[e][pair[2]]
                    ELSE im_default

\* a nested list with an item present and an item missing was flattened with
\* a default other than None
FlattenFillsDefaultWitness ==
    /\ im_pc = "flattened_some"
    /\ im_default # None
    /\ \E u, w \in 1..Len(im_some_flat) :
        /\ im_some_flat[u] = im_default
        /\ im_some_flat[w] \in Vals
    /\ \E e \in DOMAIN im_some : DOMAIN im_some[e] # {}
    /\ Len(im_some) < Len(im_ids)

\* C28: after every step of RayEnv, terminateds["__all__"] is True exactly
\* when every per-agent terminated flag the environment returned for that
\* step is True
TerminatedAllIsConjunction ==
    (r_kind = "RayEnv" /\ r_call = "step" /\ r_err = "none") =>
        (r_term_all[1] <=> (r_obs[1] \subseteq r_terminateds[1]))

\* C29: for every agent id in possible_agents of a constructed RayEnv or
\* RayVecEnv, the space accessors hold an entry for that agent id, and the
\* entry is the space the definition gives that agent in one of its
\* environments
SpacesCoverPossibleAgents ==
    (l_kind \in RayKinds /\ l_pc = "ready") =>
        \A agent_id \in possible_agents(l_ids) :
            /\ agent_id \in DOMAIN l_spaces
            /\ \E e \in DOMAIN l_ids :
                /\ agent_id \in SeqRange(l_ids[e])
                /\ l_spaces[agent_id] =
                        SpaceAt(l_odd, get_flattened_id(l_ids, e - 1, agent_id) + 1)

\* ------------------------------------------------------------------------
\* Steps that follow an explicit reset (SpecVec)
\* ------------------------------------------------------------------------
\* an explicit reset has just returned, and an environment that had finished
\* on the step before it is among those it reset
ResetOfFinished ==
    /\ v_call = "reset"
    /\ v_err = "none"
    /\ \E i \in DOMAIN srv_autoreset : srv_autoreset[i]

\* C31: under the Disabled policy, once the caller has explicitly reset a
\* finished environment, the next step is accepted and advances the new
\* episode of every environment with the caller's action.
DisabledStepAfterResetAccepted ==
    [][(srv_mode = "Disabled" /\ ResetOfFinished /\ v_call' = "step") =>
            /\ v_err' = "none"
            /\ \A i \in DOMAIN v_ids :
                /\ v_obs'[i] = srv_count[i] + 1
                /\ v_rew'[i] = v_act'[i]]_vars

\* ------------------------------------------------------------------------
\* Batches and ids on a step (SpecVec)
\* ------------------------------------------------------------------------
\* the pairs (env id, agent id) of the definition
IdPairs(ids) == UNION {{<<e - 1, a>> : a \in SeqRange(ids[e])} : e \in DOMAIN ids}

\* C32: on every step, the action handed to the transport for the pair
\* (env id, agent id) is the element of the caller's batch at the flat index
\* of that pair, and row uid of the returned rewards, terminateds and
\* truncateds is the value the transport returned for the pair of uid.
StepFollowsIds ==
    /\ v_call = "step" =>
            \A pair \in IdPairs(v_ids) :
                v_sent.actions[pair[1] + 1][pair[2]]
                    = v_act[get_flattened_id(v_ids, pair[1], pair[2]) + 1]
    /\ StepReturned =>
            \A uid \in 0..(num_ids(v_ids) - 1) :
                \E pair \in {get_nested_id(v_ids, uid)} :
                    /\ v_rew[uid + 1] = v_resp.rewards[pair[1] + 1][pair[2]]
                    /\ v_term[uid + 1] = v_resp.terminateds[pair[1] + 1][pair[2]]
                    /\ v_trunc[uid + 1] = v_resp.truncateds[pair[1] + 1][pair[2]]

\* a step of two environments that returned with different actions handed to
\* them and different rewards returned for them
StepFollowsIdsWitness ==
    /\ StepReturned
    /\ Len(v_ids) = 2
    /\ v_act[1] # v_act[2]
    /\ v_rew[1] # v_rew[2]
    /\ v_term[1] # v_term[2]

\* ------------------------------------------------------------------------
\* Construction over a started protocol and simulator (SpecLife)
\* ------------------------------------------------------------------------
\* the protocol and the simulator handed to the constructor are both started
AlreadyStarted ==
    /\ l_pc = "new"
    /\ protocol_bool(tcp_socket, channel)
    /\ l_sim = "UnrealExecutable" => env_process # "None"

\* C33: simulator.start() on a simulator that is already started does not
\* raise, so the constructor of an RLlib adapter handed a started protocol and
\* a started simulator gets past simulator.start().
StartOnStartedDoesNotRaise ==
    [][(AlreadyStarted /\ l_kind \in RayKinds /\ l_call' = "construct") =>
            /\ l_err' # "Exception"
            /\ Len(l_log') > 1]_vars

\* ------------------------------------------------------------------------
\* The wrapper's reset mark and the transport's (SpecRay)
\* ------------------------------------------------------------------------
\* C34: in RayVecEnv over a NextStep transport, after every step and every
\* reset that returned, _reset_on_next_step of an environment is true exactly
\* when the transport will auto-reset that environment on the next step call.
ResetMarkMatchesTransport ==
    (r_kind = "RayVecEnv" /\ r_call \in {"reset", "step"} /\ r_err = "none") =>
        \A e \in DOMAIN r_reset_on_next_step :
            r_reset_on_next_step[e] = pz_autoreset[e]

\* ------------------------------------------------------------------------
\* The liveness sets and the "__all__" flags (SpecRay)
\* ------------------------------------------------------------------------
\* a step of the adapter has returned
RayStepReturned == r_call = "step" /\ r_err = "none"

FirstStepAfterResetAdvances ==
    [][(srv_mode = "NextStep" /\ v_call = "reset" /\ v_err = "none" /\ v_call' = "step") =>
            /\ v_err' = "none"
            /\ \A i \in DOMAIN v_ids :
                /\ srv_count'[i] = srv_count[i] + 1
                /\ v_obs'[i] = srv_count[i] + 1
                /\ v_rew'[i] = v_act'[i]]_vars

\* C38: a reset with an options mapping that is not empty and does not hold
\* "reset_mask" sends one reset message that carries options for each of the
\* num_envs environments, and returns the batched initial observations.
ResetCarriesOptions ==
    (v_call = "reset" /\ v_options = "other") =>
        /\ v_err = "none"
        /\ v_sent.msg = "reset"
        /\ v_sent.options # None
        /\ Len(v_sent.options) = num_envs(v_ids)
        /\ Len(v_obs) = num_ids(v_ids)

\* the servicer reset environment i by itself on the step that just returned:
\* a step that steps the environment leaves its count above 0
AutoResetOnStep(i) == v_obs[i] = 0 /\ srv_count[i] = 0 /\ v_rew[i] = 0

\* C39: under the NextStep policy an environment is auto-reset on a step only
\* if it reported terminated or truncated on the step before it, and no
\* environment is auto-reset on two steps in a row.
AutoResetOnlyAfterDone ==
    [][(srv_mode = "NextStep" /\ v_call' = "step" /\ v_err' = "none") =>
            \A i \in DOMAIN v_ids :
                AutoResetOnStep(i)' =>
                    /\ h_step_done[i]
                    /\ ~(StepReturned /\ AutoResetOnStep(i))]_vars

\* a step that auto-reset an environment which had finished on the step
\* before the explicit reset that came in between
AutoResetAfterResetWitness ==
    /\ StepReturned
    /\ srv_mode = "NextStep"
    /\ AutoResetOnStep(1)
    /\ ~h_prev_done[1]
    /\ h_prev_count[1] = 0

====
